---- MODULE Spec2Model ----
(***************************************************************************)
(* excel-cli (src/src/main.c): a batch spreadsheet engine.  The input text *)
(* is split into a table of cells (Text, Number, Expression, Clone), every *)
(* formula is lexed and parsed into a tree of nodes of the expression      *)
(* buffer, and the driver evaluates every cell with the mutually recursive *)
(* table_eval_cell / table_eval_expr, modelled here as a machine with an   *)
(* explicit call stack, one action per step of either function.            *)
(*                                                                         *)
(* Text is a TLA+ string (a String_View); a character is a string of       *)
(* length one.  A double is an exact rational [n, d] with d > 0, or one of *)
(* the three non-finite values Inf, NegInf, NaN (d = 0); signed zeros and  *)
(* rounding are not modelled, so the inputs use values that doubles hold   *)
(* exactly.  A size_t is an integer modulo SizeMod.                        *)
(***************************************************************************)
EXTENDS Integers, Sequences, FiniteSets, TLC

\* ------------------------------------------------------------------ bounds

\* The generated inputs have 1..MaxRows lines, each drawn from GenLines.
MaxRows == 2

\* size_t arithmetic wraps modulo SizeMod (a stand-in for 2^64: the code only
\* compares indices with the table's extent, and increments or decrements them).
SizeMod == 65536

\* ------------------------------------------------------------ characters

Digits == "0123456789"
UpperCase == "ABCDEFGHIJKLMNOPQRSTUVWXYZ"
LowerCase == "abcdefghijklmnopqrstuvwxyz"

\* The character at position i (1-based), or "" past either end (the NUL).
CharAt(s, i) == IF 1 <= i /\ i <= Len(s) THEN SubSeq(s, i, i) ELSE ""

InStr(c, str) == \E i \in 1..Len(str) : CharAt(str, i) = c

PosIn(c, str) == CHOOSE i \in 1..Len(str) : CharAt(str, i) = c

isdigit(c) == InStr(c, Digits)

isupper(c) == InStr(c, UpperCase)

isalnum(c) == isdigit(c) \/ isupper(c) \/ InStr(c, LowerCase)

isspace(c) == c \in {" ", "\t", "\n", "\r"}

is_name(c) == isalnum(c) \/ c = "_"

DigitVal(c) == PosIn(c, Digits) - 1

\* ---------------------------------------------------------- String_View

Drop(s, k) == IF k >= Len(s) THEN "" ELSE SubSeq(s, k + 1, Len(s))

RECURSIVE sv_trim_left(_)
sv_trim_left(s) ==
    IF Len(s) > 0 /\ isspace(Head(s)) THEN sv_trim_left(Tail(s)) ELSE s

RECURSIVE sv_trim_right(_)
sv_trim_right(s) ==
    IF Len(s) > 0 /\ isspace(CharAt(s, Len(s)))
    THEN sv_trim_right(SubSeq(s, 1, Len(s) - 1))
    ELSE s

sv_trim(s) == sv_trim_right(sv_trim_left(s))

\* The index of the first delim in s, or Len(s) + 1.
RECURSIVE FindDelim(_, _, _)
FindDelim(s, delim, i) ==
    IF i > Len(s) \/ CharAt(s, i) = delim THEN i ELSE FindDelim(s, delim, i + 1)

\* sv_chop_by_delim: the text before the first delim, and what is left of the
\* view after it (the delim itself is dropped).
sv_chop_by_delim(s, delim) ==
    LET i == FindDelim(s, delim, 1)
    IN  [chopped |-> SubSeq(s, 1, i - 1), rest |-> Drop(s, i)]

RECURSIVE NameLen(_, _)
NameLen(s, i) ==
    IF i <= Len(s) /\ is_name(CharAt(s, i)) THEN NameLen(s, i + 1) ELSE i - 1

\* sv_take_left_while(s, is_name)
sv_take_left_while_name(s) == SubSeq(s, 1, NameLen(s, 1))

sv_starts_with(s, prefix) ==
    Len(s) >= Len(prefix) /\ SubSeq(s, 1, Len(prefix)) = prefix

\* -------------------------------------------------------------- doubles

Abs(x) == IF x < 0 THEN -x ELSE x

RECURSIVE GCD(_, _)
GCD(a, b) == IF b = 0 THEN a ELSE GCD(b, a % b)

\* The rational n/d in lowest terms with a positive denominator (d # 0).
Rat(n, d) ==
    LET g == GCD(Abs(n), Abs(d))
        s == IF d < 0 THEN -1 ELSE 1
    IN  [n |-> (s * n) \div g, d |-> (s * d) \div g]

Num(k) == [n |-> k, d |-> 1]

Inf == [n |-> 1, d |-> 0]
NegInf == [n |-> -1, d |-> 0]
NaN == [n |-> 0, d |-> 0]

IsFinite(x) == x.d # 0

Sign(k) == IF k > 0 THEN 1 ELSE IF k < 0 THEN -1 ELSE 0

DNeg(x) == [n |-> -x.n, d |-> x.d]

DAdd(x, y) ==
    IF x = NaN \/ y = NaN THEN NaN
    ELSE IF ~IsFinite(x) /\ ~IsFinite(y) THEN (IF x = y THEN x ELSE NaN)
    ELSE IF ~IsFinite(x) THEN x
    ELSE IF ~IsFinite(y) THEN y
    ELSE Rat(x.n * y.d + y.n * x.d, x.d * y.d)

DSub(x, y) == DAdd(x, DNeg(y))

DMul(x, y) ==
    IF x = NaN \/ y = NaN THEN NaN
    ELSE IF ~IsFinite(x) \/ ~IsFinite(y)
         THEN [n |-> Sign(x.n) * Sign(y.n), d |-> 0]
    ELSE Rat(x.n * y.n, x.d * y.d)

DDiv(x, y) ==
    IF x = NaN \/ y = NaN THEN NaN
    ELSE IF ~IsFinite(x) /\ ~IsFinite(y) THEN NaN
    ELSE IF ~IsFinite(x) THEN [n |-> Sign(x.n) * (IF y.n < 0 THEN -1 ELSE 1), d |-> 0]
    ELSE IF ~IsFinite(y) THEN Num(0)
    ELSE IF y.n = 0 THEN [n |-> Sign(x.n), d |-> 0]
    ELSE Rat(x.n * y.d, x.d * y.n)

RECURSIVE Pow10(_)
Pow10(k) == IF k = 0 THEN 1 ELSE 10 * Pow10(k - 1)

\* ---------------------------------------------------------------- strtod

\* The number of digits of s from position i on.
RECURSIVE DigitRun(_, _)
DigitRun(s, i) ==
    IF i <= Len(s) /\ isdigit(CharAt(s, i)) THEN 1 + DigitRun(s, i + 1) ELSE 0

\* The value of the k digits of s from position i on.
RECURSIVE DigitsVal(_, _, _)
DigitsVal(s, i, k) ==
    IF k = 0 THEN 0
    ELSE DigitsVal(s, i, k - 1) * 10 + DigitVal(CharAt(s, i + k - 1))

\* strtod on its decimal forms: [sign] digits [. digits] [(e|E) [sign] digits],
\* with a digit in the mantissa; the longest such prefix is converted.  used is
\* the number of characters converted (endptr - ptr), 0 when there is none.
\* (Hexadecimal, "inf" and "nan" forms are not modelled; no input uses them.)
\* The steps: lead white space, sgn sign characters, ip integer digits, fp
\* fraction digits, the mantissa ending at mend, esgn sign characters and ep
\* digits of the exponent.
StrtodEnd(s, lead, sgn, ip, fp, mend, esgn, ep) ==
    LET mant == DigitsVal(s, sgn + 1, ip) * Pow10(fp) + DigitsVal(s, sgn + ip + 2, fp)
        ev == DigitsVal(s, mend + 2 + esgn, ep)
        mag == IF esgn = 1 /\ CharAt(s, mend + 2) = "-"
               THEN Rat(mant, Pow10(fp) * Pow10(ev))
               ELSE Rat(mant * Pow10(ev), Pow10(fp))
    IN  IF ip + fp = 0
        THEN [used |-> 0, value |-> Num(0)]
        ELSE [used |-> lead + mend + (IF ep > 0 THEN 1 + esgn + ep ELSE 0),
              value |-> IF sgn = 1 /\ Head(s) = "-" THEN DNeg(mag) ELSE mag]

StrtodExpDigits(s, lead, sgn, ip, fp, mend, esgn) ==
    StrtodEnd(s, lead, sgn, ip, fp, mend, esgn,
              IF CharAt(s, mend + 1) \in {"e", "E"}
              THEN DigitRun(s, mend + 2 + esgn) ELSE 0)

StrtodExp(s, lead, sgn, ip, fp, mend) ==
    StrtodExpDigits(s, lead, sgn, ip, fp, mend,
                    IF CharAt(s, mend + 1) \in {"e", "E"}
                           /\ CharAt(s, mend + 2) \in {"+", "-"}
                    THEN 1 ELSE 0)

StrtodFrac(s, lead, sgn, ip, dot) ==
    IF dot
    THEN StrtodExp(s, lead, sgn, ip, DigitRun(s, sgn + ip + 2),
                   sgn + ip + 1 + DigitRun(s, sgn + ip + 2))
    ELSE StrtodExp(s, lead, sgn, ip, 0, sgn + ip)

StrtodInt(s, lead, sgn, ip) ==
    StrtodFrac(s, lead, sgn, ip, CharAt(s, sgn + ip + 1) = ".")

StrtodSign(s, lead, sgn) == StrtodInt(s, lead, sgn, DigitRun(s, sgn + 1))

StrtodLead(s, lead) ==
    StrtodSign(s, lead, IF CharAt(s, 1) \in {"+", "-"} THEN 1 ELSE 0)

strtod(s) == StrtodLead(sv_trim_left(s), Len(s) - Len(sv_trim_left(s)))

\* The test of sv_strtod and sv_strtol on what the conversion used of the
\* view's len characters: endptr != ptr && *endptr == '\0'.
WholeView(r, len) == [ok |-> r.used # 0 /\ r.used = len, value |-> r.value]

\* sv_strtod: the view is copied into a C string and converted.
sv_strtod(sv) == WholeView(strtod(sv), Len(sv))

\* strtol(.., 10): [sign] digits.
StrtolEnd(s, lead, sgn, ip) ==
    IF ip = 0
    THEN [used |-> 0, value |-> 0]
    ELSE [used |-> lead + sgn + ip,
          value |-> IF sgn = 1 /\ Head(s) = "-"
                    THEN -DigitsVal(s, sgn + 1, ip) ELSE DigitsVal(s, sgn + 1, ip)]

StrtolSign(s, lead, sgn) == StrtolEnd(s, lead, sgn, DigitRun(s, sgn + 1))

StrtolLead(s, lead) ==
    StrtolSign(s, lead, IF CharAt(s, 1) \in {"+", "-"} THEN 1 ELSE 0)

strtol(s) == StrtolLead(sv_trim_left(s), Len(s) - Len(sv_trim_left(s)))

sv_strtol(sv) == WholeView(strtol(sv), Len(sv))

\* ---------------------------------------------------- expression buffer

\* Expr_Index counts from 0; the buffer is the sequence of its nodes.
expr_buffer_at(eb, index) == eb[index + 1]

\* An expr_buffer_alloc that hands out the last node again.
expr_buffer_alloc_reusing(eb, node) ==
    IF eb = <<>> THEN [eb |-> <<node>>, index |-> 0]
    ELSE [eb |-> [eb EXCEPT ![Len(eb)] = node], index |-> Len(eb) - 1]

\* expr_buffer_alloc followed by the caller's writes of the node's fields:
\* the node is appended and its index is the old count.
expr_buffer_alloc(eb, node) == [eb |-> Append(eb, node), index |-> Len(eb)]

\* The capacity expr_buffer_alloc gives the buffer at its first allocation.
InitialCapacity == 128

\* The capacity of a buffer of count nodes: it is doubled whenever the count
\* has reached it, and each change of it is a realloc of eb->items, after
\* which an Expr pointer taken before it dangles.
RECURSIVE Doubled(_, _)
Doubled(capacity, count) ==
    IF count <= capacity THEN capacity ELSE Doubled(2 * capacity, count)

Capacity(count) == IF count = 0 THEN 0 ELSE Doubled(InitialCapacity, count)

NumberExpr(v) == [kind |-> "NUMBER", number |-> v]
CellExpr(row, col) == [kind |-> "CELL", cell |-> [row |-> row, col |-> col]]
BopExpr(k, lhs, rhs) == [kind |-> "BOP", bop |-> k, lhs |-> lhs, rhs |-> rhs]
UopExpr(k, param) == [kind |-> "UOP", uop |-> k, param |-> param]

\* bop_defs: token -> kind and precedence.
BopTokens == {"+", "-", "*", "/", "^"}

BopKind(tok) ==
    CASE tok = "+" -> "PLUS"
      [] tok = "-" -> "MINUS"
      [] tok = "*" -> "MULT"
      [] tok = "/" -> "DIV"
      [] tok = "^" -> "POW"

\* The two precedence levels exchanged.
BopPrecedenceSwapped(tok) == IF tok \in {"+", "-"} THEN 1 ELSE 0

BopPrecedence(tok) == IF tok \in {"+", "-"} THEN 0 ELSE 1

COUNT_BOP_PRECEDENCE == 2

\* ----------------------------------------------------------------- lexer

\* The token of lexer_peek_token on a trimmed source: empty at the end of the
\* input, one operator or parenthesis, or a run of name characters.  err is
\* "" or the error the call exits with; source is the lexer's source after
\* the call.
PeekTrimmed(src) ==
    IF Len(src) = 0 THEN [err |-> "", text |-> "", source |-> src]
    ELSE IF Head(src) \in {"+", "-", "*", "/", "(", ")", "^"}
         THEN [err |-> "", text |-> Head(src), source |-> src]
    ELSE IF is_name(Head(src))
         THEN [err |-> "", text |-> sv_take_left_while_name(src), source |-> src]
    ELSE [err |-> "UnknownToken", text |-> "", source |-> src]

\* lexer_peek_token: the lexer's source is trimmed, and stays trimmed.
lexer_peek_token(source) == PeekTrimmed(sv_trim(source))

\* sv_chop_left of the token's text.
ChopToken(t) == [t EXCEPT !.source = Drop(t.source, Len(t.text))]

lexer_next_token(source) == ChopToken(lexer_peek_token(source))

NoToken(t) ==
    IF t.err # "" THEN t.err
    ELSE IF t.text # "" THEN "UnexpectedToken"
    ELSE ""

\* A lexer_expect_no_tokens that lets what is left of the input pass.
lexer_expect_no_tokens_lax(source) == ""

\* lexer_expect_no_tokens: "" when the input is used up, else the error.
lexer_expect_no_tokens(source) == NoToken(lexer_next_token(source))

\* ---------------------------------------------------------------- parser

\* A parse result: err ("" or the error the parser exits with), the lexer's
\* remaining source, the expression buffer and the index of the parsed tree.
ParseErr(e, source, eb) == [err |-> e, source |-> source, eb |-> eb, index |-> 0]

ParseOk(source, a) == [err |-> "", source |-> source, eb |-> a.eb, index |-> a.index]

RECURSIVE parse_bop_expr(_, _, _)
RECURSIVE parse_primary_expr(_, _)

parse_expr(source, eb) == parse_bop_expr(source, eb, 0)

\* The cell reference branch of parse_primary_expr: an upper-case letter for
\* the column (letter - 'A') and a strtol integer for the row, cast to size_t.
\* A reading of the row number as counted from 1.
CellRefOfRowFromOne(letter, row) ==
    [ok |-> row.ok, row |-> (row.value - 1) % SizeMod,
     col |-> PosIn(letter, UpperCase) - 1]

\* A reading of the column letter as counted from 1.
CellRefOfColFromOne(letter, row) ==
    [ok |-> row.ok, row |-> row.value % SizeMod, col |-> PosIn(letter, UpperCase)]

CellRefOf(letter, row) ==
    [ok |-> row.ok, row |-> row.value % SizeMod, col |-> PosIn(letter, UpperCase) - 1]

ParseCellRefRow(ref, source, eb) ==
    IF ~ref.ok THEN ParseErr("CellRefRow", source, eb)
    ELSE ParseOk(source, expr_buffer_alloc(eb, CellExpr(ref.row, ref.col)))

ParseCellRef(text, source, eb) ==
    IF ~isupper(Head(text)) THEN ParseErr("CellRefCapital", source, eb)
    ELSE ParseCellRefRow(CellRefOf(Head(text), sv_strtol(Drop(text, 1))), source, eb)

\* The "(" branch, after parse_expr returned r and the next token is close.
PrimaryClose(r, close) ==
    IF close.err # "" THEN ParseErr(close.err, close.source, r.eb)
    ELSE IF close.text # ")" THEN ParseErr("ExpectedParen", close.source, r.eb)
    ELSE [r EXCEPT !.source = close.source]

PrimaryParen(r) ==
    IF r.err # "" THEN r ELSE PrimaryClose(r, lexer_next_token(r.source))

\* The "-" branch, after parse_expr returned r.
PrimaryMinus(r) ==
    IF r.err # "" THEN r
    ELSE ParseOk(r.source, expr_buffer_alloc(r.eb, UopExpr("MINUS", r.index)))

\* parse_primary_expr on its token, number being sv_strtod of the text.
PrimaryOf(token, number, eb) ==
    IF number.ok
    THEN ParseOk(token.source, expr_buffer_alloc(eb, NumberExpr(number.value)))
    ELSE IF token.text = "(" THEN PrimaryParen(parse_expr(token.source, eb))
    ELSE IF token.text = "-" THEN PrimaryMinus(parse_expr(token.source, eb))
    ELSE ParseCellRef(token.text, token.source, eb)

PrimaryOfToken(token, eb) ==
    IF token.err # "" THEN ParseErr(token.err, token.source, eb)
    ELSE IF Len(token.text) = 0 THEN ParseErr("ExpectedPrimary", token.source, eb)
    ELSE PrimaryOf(token, sv_strtod(token.text), eb)

parse_primary_expr(source, eb) == PrimaryOfToken(lexer_next_token(source), eb)

\* A node with the operands exchanged.
BopNodeSwapped(tok, lhs, rhs) ==
    IF rhs.err # "" THEN rhs
    ELSE ParseOk(rhs.source,
                 expr_buffer_alloc(rhs.eb, BopExpr(BopKind(tok), rhs.index, lhs.index)))

\* parse_bop_expr after the right operand rhs of operator tok was parsed.
BopNode(tok, lhs, rhs) ==
    IF rhs.err # "" THEN rhs
    ELSE ParseOk(rhs.source,
                 expr_buffer_alloc(rhs.eb, BopExpr(BopKind(tok), lhs.index, rhs.index)))

\* parse_bop_expr after the left operand lhs, the peeked token being token.
BopRest(lhs, token, precedence) ==
    IF token.err # "" THEN ParseErr(token.err, token.source, lhs.eb)
    ELSE IF token.text \in BopTokens /\ BopPrecedence(token.text) = precedence
         THEN BopNode(token.text, lhs,
                      parse_bop_expr(Drop(token.source, 1), lhs.eb, precedence))
    ELSE [lhs EXCEPT !.source = token.source]

BopLhs(lhs, precedence) ==
    IF lhs.err # "" THEN lhs
    ELSE BopRest(lhs, lexer_peek_token(lhs.source), precedence)

parse_bop_expr(source, eb, precedence) ==
    IF precedence >= COUNT_BOP_PRECEDENCE THEN parse_primary_expr(source, eb)
    ELSE BopLhs(parse_bop_expr(source, eb, precedence + 1), precedence)

\* ----------------------------------------------------------------- table

\* A Cell: kind, the member of the union Cell_As that the kind selects, and
\* status.  (file_row and file_col only feed the error messages.)
TextCell(text) == [kind |-> "TEXT", as |-> [text |-> text], status |-> "UNEVALUATED"]
NumberCell(v) == [kind |-> "NUMBER", as |-> [number |-> v], status |-> "UNEVALUATED"]
ExprCell(index) ==
    [kind |-> "EXPR", as |-> [expr |-> [index |-> index, value |-> Num(0)]],
     status |-> "UNEVALUATED"]
CloneCell(dir) == [kind |-> "CLONE", as |-> [clone |-> dir], status |-> "UNEVALUATED"]

\* What a read past the end of table->cells yields; never reached while the
\* asserts of table_cell_at hold.
OutsideCell == [kind |-> "TEXT", as |-> [text |-> ""], status |-> "EVALUATED"]

\* A table_cell_at that asserts the row only.
InTableRowOnly(index, rows, cols) == index.row < rows

\* The asserts of table_cell_at.
InTable(index, rows, cols) == index.row < rows /\ index.col < cols

\* table_cell_at without its asserts: the offset into table->cells.
CellOffset(index, cols) == index.row * cols + index.col

\* estimate_table_size: the lines are counted while content is left, and on
\* each line the fields while line is left.
RECURSIVE CountFields(_)
CountFields(line) ==
    IF Len(line) = 0 THEN 0
    ELSE 1 + CountFields(sv_chop_by_delim(line, "|").rest)

\* A comparison that keeps the count of the line at hand.
MaxOfLine(a, b) == a

\* if(cols < col) cols = col
Max(a, b) == IF a < b THEN b ELSE a

SizeWithLine(n, size) == [rows |-> size.rows + 1, cols |-> Max(n, size.cols)]

RECURSIVE estimate_table_size(_)

SizeAfterChop(c) == SizeWithLine(CountFields(c.chopped), estimate_table_size(c.rest))

estimate_table_size(content) ==
    IF Len(content) = 0 THEN [rows |-> 0, cols |-> 0]
    ELSE SizeAfterChop(sv_chop_by_delim(content, "\n"))

\* A reading of the direction that takes anything else for <.
CloneDirLenient(text) ==
    CASE text = ">" -> "RIGHT"
      [] text = "^" -> "UP"
      [] text = "v" -> "DOWN"
      [] OTHER -> "LEFT"

\* The direction a Clone field names, or "" (the invalid-direction error).
CloneDir(text) ==
    CASE text = "<" -> "LEFT"
      [] text = ">" -> "RIGHT"
      [] text = "^" -> "UP"
      [] text = "v" -> "DOWN"
      [] OTHER -> ""

\* One field of parse_table_from_content: the cell for the trimmed field text,
\* the buffer after parsing it, and err ("" or the error the parse exits with).
ExprField(r) ==
    [err |-> IF r.err # "" THEN r.err ELSE lexer_expect_no_tokens(r.source),
     eb |-> r.eb, cell |-> ExprCell(r.index)]

CloneField(dir, eb) ==
    [err |-> IF dir = "" THEN "CloneDirection" ELSE "", eb |-> eb, cell |-> CloneCell(dir)]

PlainField(cell_value, n, eb) ==
    [err |-> "", eb |-> eb,
     cell |-> IF n.ok THEN NumberCell(n.value) ELSE TextCell(cell_value)]

ParseField(cell_value, eb) ==
    IF sv_starts_with(cell_value, "=")
    THEN ExprField(parse_expr(Drop(cell_value, 1), eb))
    ELSE IF sv_starts_with(cell_value, ":")
    THEN CloneField(CloneDir(Drop(cell_value, 1)), eb)
    ELSE PlainField(cell_value, sv_strtod(cell_value), eb)

\* The table under construction with the cell of field f written.
WithField(acc, f) == [err |-> f.err, eb |-> f.eb, cells |-> Append(acc.cells, f.cell)]

\* The inner loop of parse_table_from_content over the columns of one line;
\* c is the line chopped at its first '|'.
RECURSIVE ParseLine(_, _, _, _)

ParseLineChopped(c, col, cols, acc) ==
    ParseLine(c.rest, col + 1, cols,
              WithField(acc, ParseField(sv_trim(c.chopped), acc.eb)))

ParseLine(line, col, cols, acc) ==
    IF col >= cols \/ acc.err # "" THEN acc
    ELSE ParseLineChopped(sv_chop_by_delim(line, "|"), col, cols, acc)

\* The outer loop over the rows; c is the content chopped at its first '\n'.
RECURSIVE ParseLines(_, _, _, _, _)

ParseLinesChopped(c, row, rows, cols, acc) ==
    ParseLines(c.rest, row + 1, rows, cols, ParseLine(c.chopped, 0, cols, acc))

ParseLines(content, row, rows, cols, acc) ==
    IF row >= rows \/ acc.err # "" THEN acc
    ELSE ParseLinesChopped(sv_chop_by_delim(content, "\n"), row, rows, cols, acc)

ParsedTable(size, r) ==
    [err |-> r.err, eb |-> r.eb, cells |-> r.cells, rows |-> size.rows, cols |-> size.cols]

ParseWithSize(content, size) ==
    ParsedTable(size, ParseLines(content, 0, size.rows, size.cols,
                                 [err |-> "", eb |-> <<>>, cells |-> <<>>]))

\* main: estimate_table_size, the zeroed table, parse_table_from_content.
parse_table_from_content(content) == ParseWithSize(content, estimate_table_size(content))

\* ------------------------------------------------------------ evaluation

\* The C stack holds at most MaxCallDepth nested calls of bin_pow.
MaxCallDepth == 16

\* C's integer division and remainder (truncation toward zero).
CQuot(a, b) == Sign(a) * Sign(b) * (Abs(a) \div Abs(b))

CRem(a, b) == a - b * CQuot(a, b)

\* bin_pow: ok with the power, or not ok when the recursion does not reach
\* n == 0 within the stack (as for every n < 0, which alternates -1, -2).
PowSquare(tmp) ==
    [ok |-> tmp.ok, value |-> IF tmp.ok THEN DMul(tmp.value, tmp.value) ELSE NaN]

PowTimes(num, r) ==
    [ok |-> r.ok, value |-> IF r.ok THEN DMul(num, r.value) ELSE NaN]

RECURSIVE bin_pow(_, _, _)
bin_pow(num, n, depth) ==
    IF depth = 0 THEN [ok |-> FALSE, value |-> NaN]
    ELSE IF n = 0 THEN [ok |-> TRUE, value |-> Num(1)]
    ELSE IF CRem(n, 2) = 0 THEN PowSquare(bin_pow(num, CQuot(n, 2), depth - 1))
    ELSE PowTimes(num, bin_pow(num, n - 1, depth - 1))

\* The doubles whose conversion to int is undefined.
NonFinite == {Inf, NegInf, NaN}

\* A conversion that rounds down.
IntCastFloor(x, conv) ==
    IF IsFinite(x) THEN {x.n \div x.d} ELSE conv[x]

\* (int) rhs: truncation toward zero; the conversion of a non-finite double
\* is undefined, and conv[x] are the ints the build may make of x (a negative
\* one, zero and a positive one stand for them).
IntCast(x, conv) ==
    IF IsFinite(x) THEN {CQuot(x.n, x.d)} ELSE conv[x]

\* The operators applied to the operands in the other order.
ApplyBopSwapped(kind, lhs, rhs, n) ==
    CASE kind = "PLUS" -> [ok |-> TRUE, value |-> DAdd(rhs, lhs)]
      [] kind = "MINUS" -> [ok |-> TRUE, value |-> DSub(rhs, lhs)]
      [] kind = "MULT" -> [ok |-> TRUE, value |-> DMul(rhs, lhs)]
      [] kind = "DIV" -> [ok |-> TRUE, value |-> DDiv(rhs, lhs)]
      [] kind = "POW" -> bin_pow(rhs, n, MaxCallDepth)

\* The switch on the operator of a BOP node, n being (int) rhs.
ApplyBop(kind, lhs, rhs, n) ==
    CASE kind = "PLUS" -> [ok |-> TRUE, value |-> DAdd(lhs, rhs)]
      [] kind = "MINUS" -> [ok |-> TRUE, value |-> DSub(lhs, rhs)]
      [] kind = "MULT" -> [ok |-> TRUE, value |-> DMul(lhs, rhs)]
      [] kind = "DIV" -> [ok |-> TRUE, value |-> DDiv(lhs, rhs)]
      [] kind = "POW" -> bin_pow(lhs, n, MaxCallDepth)

\* A switch that reads a Text target as 0 instead of exiting.
TargetValueTextAsZero(cell) ==
    CASE cell.kind = "NUMBER" -> [err |-> "", value |-> cell.as.number]
      [] cell.kind = "TEXT" -> [err |-> "", value |-> Num(0)]
      [] cell.kind = "EXPR" -> [err |-> "", value |-> cell.as.expr.value]
      [] cell.kind = "CLONE" -> [err |-> "Unreachable", value |-> NaN]

\* The switch on the kind of the target cell of a CELL node: the value read,
\* or the error the run exits with.
TargetValue(cell) ==
    CASE cell.kind = "NUMBER" -> [err |-> "", value |-> cell.as.number]
      [] cell.kind = "TEXT" -> [err |-> "TextInMath", value |-> NaN]
      [] cell.kind = "EXPR" -> [err |-> "", value |-> cell.as.expr.value]
      [] cell.kind = "CLONE" -> [err |-> "Unreachable", value |-> NaN]

\* An opposite_dir that returns the direction itself.
opposite_dir_same(dir) == dir

opposite_dir(dir) ==
    CASE dir = "LEFT" -> "RIGHT"
      [] dir = "RIGHT" -> "LEFT"
      [] dir = "UP" -> "DOWN"
      [] dir = "DOWN" -> "UP"

\* A nbor_in_dir with the columns of LEFT and RIGHT exchanged.
nbor_in_dir_mirrored(index, dir) ==
    CASE dir = "LEFT" -> [index EXCEPT !.col = (index.col + 1) % SizeMod]
      [] dir = "RIGHT" -> [index EXCEPT !.col = (index.col - 1) % SizeMod]
      [] dir = "UP" -> [index EXCEPT !.row = (index.row - 1) % SizeMod]
      [] dir = "DOWN" -> [index EXCEPT !.row = (index.row + 1) % SizeMod]

\* nbor_in_dir: size_t arithmetic, so that 0 - 1 wraps to the largest size_t.
nbor_in_dir(index, dir) ==
    CASE dir = "LEFT" -> [index EXCEPT !.col = (index.col - 1) % SizeMod]
      [] dir = "RIGHT" -> [index EXCEPT !.col = (index.col + 1) % SizeMod]
      [] dir = "UP" -> [index EXCEPT !.row = (index.row - 1) % SizeMod]
      [] dir = "DOWN" -> [index EXCEPT !.row = (index.row + 1) % SizeMod]

\* A move_expr_in_dir that leaves the tree where it is.
move_expr_in_dir_unmoved(eb, root, dir) == [eb |-> eb, index |-> root]

\* move_expr_in_dir: the buffer with the moved copy of the tree at root
\* appended, and the index of the copy's root.
RECURSIVE move_expr_in_dir(_, _, _)
move_expr_in_dir(eb, root, dir) ==
    LET e == expr_buffer_at(eb, root)
    IN  CASE e.kind = "NUMBER" -> [eb |-> eb, index |-> root]
          [] e.kind = "CELL" ->
                LET c == nbor_in_dir(e.cell, dir)
                IN  expr_buffer_alloc(eb, CellExpr(c.row, c.col))
          [] e.kind = "BOP" ->
                LET l == move_expr_in_dir(eb, e.lhs, dir)
                    r == move_expr_in_dir(l.eb, e.rhs, dir)
                IN  expr_buffer_alloc(r.eb, BopExpr(e.bop, l.index, r.index))
          [] e.kind = "UOP" ->
                LET q == move_expr_in_dir(eb, e.param, dir)
                IN  expr_buffer_alloc(q.eb, UopExpr(e.uop, q.index))

\* A check that takes every cell that is not Unevaluated for a cycle.
CycleDetectedUnlessFresh(cell) == cell.status # "UNEVALUATED"

\* A table_eval_cell without the check of INPROGRESS.
CycleDetectedNever(cell) == FALSE

\* The check of table_eval_cell on an Expression or Clone cell that is
\* reached while it is being evaluated.
CycleDetected(cell) == cell.status = "INPROGRESS"

\* A check of the neighbor that lets the index one past the last through.
CloneTargetOutsideOffByOne(nbor, rows, cols) == nbor.row > rows \/ nbor.col > cols

\* A test of the status that lets an Evaluated cell be evaluated again.
NeedsEvalUnlessInProgress(cell) == cell.status # "INPROGRESS"

\* The test of table_eval_cell that guards the evaluation of an Expression
\* or Clone cell.
NeedsEval(cell) == cell.status = "UNEVALUATED"

\* The check of table_eval_cell on the neighbor of a Clone cell.
CloneTargetOutside(nbor, rows, cols) == nbor.row >= rows \/ nbor.col >= cols

\* ---------------------------------------------------------------- inputs

\* The grid of README.md (sum.csv), with its header line.
ReadmeSum == "A      | B\n1      | 2\n3      | 4\n=A1+B1 | =A2+B2\n"

\* The same grid without the header line.
GridNoHeader == "1 | 2\n3 | 4\n=A1+B1 | =A2+B2"

\* =A1+B1 over A1 = 3 and B1 = 4.
GridSum == "=A1+B1\n3|4"

\* One formula per binary operator.
GridBops == "=2*3|=2-5|=10/4|=2^3"

\* A leading unary minus.
GridUnary == "=-5+2"

\* A power with a negative exponent.
GridNegativePower == "=2^-1"

\* The bills table of the README.
ReadmeBills ==
    "Date      |Amount of A |Price of A|Sum         |Total |\n" \o
    "17.07.2021|40.0        |     2.50 | =B1 * C1   |=D1   |\n" \o
    "18.07.2021|70.24       |=C1+1     |   :^       |=E1+D2|\n" \o
    "19.07.2021|65.5        |     :^   |   :^       |:^    |\n" \o
    "20.07.2021|38.2        |     :^   |   :^       |:^    |\n" \o
    "21.07.2021|50.0        |     :^   |   :^       |:^    |\n"

\* A decimal and an exponent literal, each as a Number cell and in a formula.
GridDecimalLiteral == "1.5|=1.5"

GridExponentLiteral == "1e-6|=1e-6"

\* A token left after a complete expression.
GridTrailingNumber == "7|=1 2"

GridTrailingParen == "7|=1)"

\* A clone field that names no direction.
GridBadDirection == "1|:z"

\* Lines of two, no and three fields, with empty fields and final bars.
GridRagged == "1|2|\n\n=A0||x|\n"

\* Formulas over operators of both precedence levels, and parentheses.
GridPrecedence == "=2+3*4|=2*3+4|=(2+3)*4|=2+8/4|=2^3-1"

\* Chains of operators of one precedence level, over the row 7, 2, 1.
GridChains == "=A1-B1-C1|=8/4/2|=2^3^2|=2*3/4|=1-2+3\n7|2|1"

\* Powers with exponents 2.5, 0, -0.5, 10 and 3, over the row 2.5, -0.5, 0, 1.5.
GridPowers == "=2^A1|=0^0|=A1^B1|=3^C1|=2^10|=D1^3\n2.5|-0.5|0|1.5"

\* A formula that refers to a clone of a formula, not yet resolved when the
\* formula is evaluated.
GridCloneInFormula == "=B0+1|:v\n3|=A2*2\n5|"

\* Cells that depend on one cell along two paths, through formulas and
\* through clones.
GridDiamond == "=B0+C0|=D0*2|=D0+1|5\n=B1+C1|:^|:^|:^"

\* A clone whose translated tree leads back to the clone itself.
GridCloneReadBack == "=A2+1|5\n:^|=A1\n7|\n=B1|"

Examples ==
    { GridPrecedence, GridChains, GridPowers, GridCloneInFormula, GridDiamond,
      GridCloneReadBack,
      ReadmeSum, GridNoHeader, GridSum, GridBops, GridUnary, GridNegativePower,
      ReadmeBills, GridDecimalLiteral, GridExponentLiteral,
      GridTrailingNumber, GridTrailingParen, GridBadDirection, GridRagged }

\* The lines the generated inputs are made of: numbers, text, short lines,
\* references inside and outside the table, the four clone directions in the
\* middle and on the edges, clones of formulas, a division by zero, a negative
\* exponent, and a formula that does not parse.
GenLines ==
    { "1|2", "x", "3", "=A0", "=B0|=A0", "=A1|=B1", "=A0+B1|x", ":>|=A1", "=B1|:<",
      ":^|:^", ":v|:v", ":<|:>", ":>|:<", "=A2|=C0", "=B0*2|:<|1",
      " = A0 - 1 | 4 ", "=1+1|=A0^2", "=(1|:z", "x|:<|=B0", "=A0+1|:<", "x|:>|3",
      "=B0+1|=A0*2",
      ":>|2", ":>|=B1", "=A0*B0|:^", "5|=-A0", "=1/0|=2^A0|=2^(0-1)", ":v|=B0" }

RECURSIVE JoinLines(_)
JoinLines(lines) ==
    IF Len(lines) = 1 THEN lines[1]
    ELSE lines[1] \o "\n" \o JoinLines(Tail(lines))

GenInputs ==
    { JoinLines(ls) : ls \in UNION { [1..n -> GenLines] : n \in 1..MaxRows } }

Inputs == Examples \cup GenInputs

\* ----------------------------------------------------------------- state

VARIABLES
    content,    \* the text of the input file
    phase,      \* "start", "eval", "render", "done", or "error" (the exit)
    err,        \* the error the run exited with, or ""
    rows, cols, \* table.rows, table.cols
    cells,      \* table.cells, cell (row, col) at offset row * cols + col
    eb,         \* the expression buffer
    stack,      \* the calls of table_eval_cell and table_eval_expr in progress
    ret,        \* the value the last table_eval_expr returned
    pos,        \* the offset of the cell the loop of main is at
    out,        \* the fields written to the output so far
    parsed,     \* history: table.cells as parse_table_from_content left it
    conv,       \* the ints the build still may convert each non-finite double to
    first       \* the outcome of an earlier run over the same content, if any

vars ==
    <<content, phase, err, rows, cols, cells, eb, stack, ret, pos, out, parsed,
      conv, first>>

Init ==
    /\ content \in Inputs
    /\ phase = "start"
    /\ err = ""
    /\ rows = 0
    /\ cols = 0
    /\ cells = <<>>
    /\ eb = <<>>
    /\ stack = <<>>
    /\ ret = Num(0)
    /\ pos = 0
    /\ out = <<>>
    /\ parsed = <<>>
    /\ conv = [x \in NonFinite |-> {-1, 0, 1}]
    /\ first = [run |-> "none", cells |-> <<>>, eb |-> <<>>]

\* A call of table_eval_cell: pc "enter" before its first statement, "expr"
\* and "moved" inside its calls of table_eval_expr, "nbor" inside its call on
\* the neighbor; dir and nbor are its locals.
CellFrame(index) ==
    [fn |-> "cell", pc |-> "enter", index |-> index, dir |-> "", nbor |-> index]

\* A call of table_eval_expr: pc "enter", "cell" inside table_eval_cell,
\* "lhs", "rhs" and "uop" inside the calls on its children; lhs is its local,
\* and cap the capacity of the buffer when its pointer expr was taken.
ExprFrame(index) ==
    [fn |-> "expr", pc |-> "enter", expr |-> index, lhs |-> Num(0), cap |-> 0]

Top == stack[Len(stack)]

Pop == SubSeq(stack, 1, Len(stack) - 1)

\* The top frame replaced by f and the call g made from it.
Call(f, g) == Append([stack EXCEPT ![Len(stack)] = f], g)

\* The ways a read through the pointer expr of the top call of table_eval_expr
\* can go after a call returned: as if the node were read in place, and, when
\* the buffer was reallocated during the call (the pointer dangles, the read
\* is undefined), also a crash.
ExprReads ==
    IF Top.cap = Capacity(Len(eb)) THEN {"node"} ELSE {"node", "crash"}

Running(fn, pc) ==
    /\ phase = "eval"
    /\ stack # <<>>
    /\ Top.fn = fn
    /\ Top.pc = pc

\* table_cell_at: the cell at index.
CellRead(index) ==
    IF CellOffset(index, cols) < Len(cells)
    THEN cells[CellOffset(index, cols) + 1]
    ELSE OutsideCell

CellWrite(index, cell) ==
    IF CellOffset(index, cols) < Len(cells)
    THEN [cells EXCEPT ![CellOffset(index, cols) + 1] = cell]
    ELSE cells

\* exit(1) after the error message (or abort() after a failed assert).
Exit(e) ==
    /\ phase' = "error"
    /\ err' = e

\* main up to the evaluation loop, t being the parsed table.
ParseTableTo(t) ==
    /\ rows' = t.rows
    /\ cols' = t.cols
    /\ cells' = t.cells
    /\ eb' = t.eb
    /\ parsed' = t.cells
    /\ IF t.err # "" THEN Exit(t.err) ELSE phase' = "eval" /\ err' = err

ParseTable ==
    /\ phase = "start"
    /\ ParseTableTo(parse_table_from_content(content))
    /\ UNCHANGED <<content, conv, first, stack, ret, pos, out>>

\* The evaluation loop of main stopping one row early.
EvalLoopRunsButLastRow(at, nrows, ncols) == at < (nrows - 1) * ncols

\* The condition of the evaluation loop of main, at being the number of cells
\* visited so far in row-major order: row < table.rows (col < table.cols).
EvalLoopRuns(at, nrows, ncols) == at < nrows * ncols

\* One iteration of the evaluation loop of main: the call of table_eval_cell.
MainEvalCell ==
    /\ phase = "eval"
    /\ stack = <<>>
    /\ EvalLoopRuns(pos, rows, cols)
    /\ stack' = <<CellFrame([row |-> pos \div cols, col |-> pos % cols])>>
    /\ pos' = pos + 1
    /\ UNCHANGED <<content, conv, first, phase, err, rows, cols, cells, eb, ret, out, parsed>>

\* The end of the evaluation loop.
MainEvalDone ==
    /\ phase = "eval"
    /\ stack = <<>>
    /\ ~EvalLoopRuns(pos, rows, cols)
    /\ phase' = "render"
    /\ pos' = 0
    /\ UNCHANGED <<content, conv, first, err, rows, cols, cells, eb, stack, ret, out, parsed>>

\* A cell under evaluation that is not marked.
InProgressCellUnmarked(cell) == cell

\* cell->status = INPROGRESS
InProgressCell(cell) == [cell EXCEPT !.status = "INPROGRESS"]

\* table_eval_cell from its entry to its first call, its exit or its return.
EvalCellEnter ==
    /\ Running("cell", "enter")
    /\ LET index == Top.index
           cell == CellRead(index)
       IN  IF ~InTable(index, rows, cols)
           THEN Exit("AssertCellIndex") /\ UNCHANGED <<cells, stack>>
           ELSE IF cell.kind \in {"TEXT", "NUMBER"}
           THEN /\ cells' = CellWrite(index, [cell EXCEPT !.status = "EVALUATED"])
                /\ stack' = Pop
                /\ UNCHANGED <<phase, err>>
           ELSE IF CycleDetected(cell)
           THEN Exit("Cycle") /\ UNCHANGED <<cells, stack>>
           ELSE IF cell.kind = "EXPR"
           THEN IF NeedsEval(cell)
                THEN /\ cells' = CellWrite(index, InProgressCell(cell))
                     /\ stack' = Call([Top EXCEPT !.pc = "expr"],
                                      ExprFrame(cell.as.expr.index))
                     /\ UNCHANGED <<phase, err>>
                ELSE /\ stack' = Pop
                     /\ UNCHANGED <<phase, err, cells>>
           ELSE IF NeedsEval(cell)
           THEN LET dir == cell.as.clone
                    nbor_index == nbor_in_dir(index, dir)
                IN  /\ cells' = CellWrite(index, InProgressCell(cell))
                    /\ IF CloneTargetOutside(nbor_index, rows, cols)
                       THEN Exit("CloneOutside") /\ UNCHANGED stack
                       ELSE /\ stack' = Call([Top EXCEPT !.pc = "nbor", !.dir = dir,
                                                         !.nbor = nbor_index],
                                             CellFrame(nbor_index))
                            /\ UNCHANGED <<phase, err>>
           ELSE Exit("Unreachable") /\ UNCHANGED <<cells, stack>>
    /\ UNCHANGED <<content, conv, first, rows, cols, eb, ret, pos, out, parsed>>

\* table_eval_cell on an Expression cell, after table_eval_expr returned.
EvalCellAfterExpr ==
    /\ Running("cell", "expr")
    /\ LET cell == CellRead(Top.index)
       IN  cells' = CellWrite(Top.index,
                        [cell EXCEPT !.as.expr.value = ret, !.status = "EVALUATED"])
    /\ stack' = Pop
    /\ UNCHANGED <<content, conv, first, phase, err, rows, cols, eb, ret, pos, out, parsed>>

\* table_eval_cell on a Clone cell, after the call on the neighbor returned:
\* the neighbor's kind and payload are copied, and an expression is moved.
EvalCellAfterNbor ==
    /\ Running("cell", "nbor")
    /\ LET nbor == CellRead(Top.nbor)
           moved == move_expr_in_dir(eb, nbor.as.expr.index, opposite_dir(Top.dir))
       IN  IF nbor.kind = "EXPR"
           THEN /\ eb' = moved.eb
                /\ cells' = CellWrite(Top.index,
                                [kind |-> nbor.kind,
                                 as |-> [nbor.as EXCEPT !.expr.index = moved.index],
                                 status |-> "INPROGRESS"])
                /\ stack' = Call([Top EXCEPT !.pc = "moved"], ExprFrame(moved.index))
           ELSE /\ cells' = CellWrite(Top.index,
                                [kind |-> nbor.kind, as |-> nbor.as,
                                 status |-> "EVALUATED"])
                /\ stack' = Pop
                /\ eb' = eb
    /\ UNCHANGED <<content, conv, first, phase, err, rows, cols, ret, pos, out, parsed>>

\* table_eval_cell on a Clone cell, after table_eval_expr on the moved
\* expression returned.
EvalCellAfterMoved ==
    /\ Running("cell", "moved")
    /\ LET cell == CellRead(Top.index)
       IN  cells' = CellWrite(Top.index,
                        [cell EXCEPT !.as.expr.value = ret, !.status = "EVALUATED"])
    /\ stack' = Pop
    /\ UNCHANGED <<content, conv, first, phase, err, rows, cols, eb, ret, pos, out, parsed>>

\* table_eval_expr from its entry to its first call or its return.
EvalExprEnter ==
    /\ Running("expr", "enter")
    /\ LET expr == expr_buffer_at(eb, Top.expr)
       IN  CASE expr.kind = "NUMBER" ->
                    ret' = expr.number /\ stack' = Pop
             [] expr.kind = "CELL" ->
                    /\ stack' = Call([Top EXCEPT !.pc = "cell",
                                                  !.cap = Capacity(Len(eb))],
                                      CellFrame(expr.cell))
                    /\ ret' = ret
             [] expr.kind = "BOP" ->
                    /\ stack' = Call([Top EXCEPT !.pc = "lhs",
                                                  !.cap = Capacity(Len(eb))],
                                      ExprFrame(expr.lhs))
                    /\ ret' = ret
             [] expr.kind = "UOP" ->
                    /\ stack' = Call([Top EXCEPT !.pc = "uop",
                                                  !.cap = Capacity(Len(eb))],
                                      ExprFrame(expr.param))
                    /\ ret' = ret
    /\ UNCHANGED <<content, conv, first, phase, err, rows, cols, cells, eb, pos, out, parsed>>

\* table_eval_expr on a CELL node, after table_eval_cell returned.
EvalExprAfterCell ==
    /\ Running("expr", "cell")
    /\ \E read \in ExprReads :
          LET index == expr_buffer_at(eb, Top.expr).cell
              target == TargetValue(CellRead(index))
          IN  IF read = "crash"
              THEN Exit("Crash") /\ UNCHANGED <<stack, ret>>
              ELSE IF ~InTable(index, rows, cols)
              THEN Exit("AssertCellIndex") /\ UNCHANGED <<stack, ret>>
              ELSE IF target.err # ""
              THEN Exit(target.err) /\ UNCHANGED <<stack, ret>>
              ELSE /\ ret' = target.value
                   /\ stack' = Pop
                   /\ UNCHANGED <<phase, err>>
    /\ UNCHANGED <<content, conv, first, rows, cols, cells, eb, pos, out, parsed>>

\* table_eval_expr on a BOP node, after the call on lhs returned.
EvalExprAfterLhs ==
    /\ Running("expr", "lhs")
    /\ \E read \in ExprReads :
          IF read = "crash"
          THEN Exit("Crash") /\ UNCHANGED stack
          ELSE /\ stack' = Call([Top EXCEPT !.pc = "rhs", !.lhs = ret],
                                ExprFrame(expr_buffer_at(eb, Top.expr).rhs))
               /\ UNCHANGED <<phase, err>>
    /\ UNCHANGED <<content, conv, first, rows, cols, cells, eb, ret, pos, out, parsed>>

\* The values (int) rhs can have where the switch computes it, under
\* BOP_KIND_POW (the other operators do not convert; 0 stands for no value).
IntOfRhs(bop) == IF bop = "POW" THEN IntCast(ret, conv) ELSE {0}

\* The build converts a non-finite double the same way each time: once rhs
\* was converted to n, n is what the build makes of rhs.
Converted(bop, n) ==
    IF bop = "POW" /\ ~IsFinite(ret) THEN [conv EXCEPT ![ret] = {n}] ELSE conv

\* table_eval_expr on a BOP node, after the call on rhs returned.
EvalExprAfterRhs ==
    /\ Running("expr", "rhs")
    /\ \E n \in IntOfRhs(expr_buffer_at(eb, Top.expr).bop), read \in ExprReads :
          LET r == ApplyBop(expr_buffer_at(eb, Top.expr).bop, Top.lhs, ret, n)
          IN  IF read = "crash"
              THEN Exit("Crash") /\ UNCHANGED <<stack, ret, conv>>
              ELSE /\ conv' = Converted(expr_buffer_at(eb, Top.expr).bop, n)
                   /\ IF r.ok
                      THEN /\ ret' = r.value
                           /\ stack' = Pop
                           /\ UNCHANGED <<phase, err>>
                      ELSE Exit("StackOverflow") /\ UNCHANGED <<stack, ret>>
    /\ UNCHANGED <<content, first, rows, cols, cells, eb, pos, out, parsed>>

\* table_eval_expr on a UOP node, after the call on param returned.
EvalExprAfterUop ==
    /\ Running("expr", "uop")
    /\ \E read \in ExprReads :
          IF read = "crash"
          THEN Exit("Crash") /\ UNCHANGED <<stack, ret>>
          ELSE /\ ret' = DNeg(ret)
               /\ stack' = Pop
               /\ UNCHANGED <<phase, err>>
    /\ UNCHANGED <<content, conv, first, rows, cols, cells, eb, pos, out, parsed>>

\* One field of the rendering loop of main: the text of a Text cell, the
\* double of a Number cell, the value of an Expression cell (the widths and
\* the formatting of "%lf" are not modelled).
RenderCell ==
    /\ phase = "render"
    /\ pos < rows * cols
    /\ LET cell == cells[pos + 1]
       IN  CASE cell.kind = "TEXT" ->
                    out' = Append(out, cell.as.text) /\ pos' = pos + 1
                                                     /\ UNCHANGED <<phase, err>>
             [] cell.kind = "NUMBER" ->
                    out' = Append(out, cell.as.number) /\ pos' = pos + 1
                                                       /\ UNCHANGED <<phase, err>>
             [] cell.kind = "EXPR" ->
                    out' = Append(out, cell.as.expr.value) /\ pos' = pos + 1
                                                           /\ UNCHANGED <<phase, err>>
             [] cell.kind = "CLONE" ->
                    Exit("Unreachable") /\ UNCHANGED <<out, pos>>
    /\ UNCHANGED <<content, conv, first, rows, cols, cells, eb, stack, ret, parsed>>

\* The end of main.
RenderDone ==
    /\ phase = "render"
    /\ pos = rows * cols
    /\ phase' = "done"
    /\ UNCHANGED <<content, conv, first, err, rows, cols, cells, eb, stack, ret, pos, out, parsed>>

Next ==
    \/ ParseTable
    \/ MainEvalCell
    \/ MainEvalDone
    \/ EvalCellEnter
    \/ EvalCellAfterExpr
    \/ EvalCellAfterNbor
    \/ EvalCellAfterMoved
    \/ EvalExprEnter
    \/ EvalExprAfterCell
    \/ EvalExprAfterLhs
    \/ EvalExprAfterRhs
    \/ EvalExprAfterUop
    \/ RenderCell
    \/ RenderDone

Spec == Init /\ [][Next]_vars

\* ------------------------------------------------- a second run, any order

\* The run of main is followed by a second evaluation of the same table in
\* which the loop of main calls table_eval_cell on the cells in any order.

\* The lines of the inputs of the two runs: those of GenLines in which cells
\* depend on cells before and after them in the order of main.
OrderLines ==
    { "1|2", "=B0|=A0", "=A0+B1|x", ":>|=A1", "=B1|:<", ":^|:^", ":v|:v",
      "=A0+1|:<", ":>|=B1", "=1+1|=A0^2", "=B0+1|=A0*2", "5|=-A0",
      "=1/0|=2^A0|=2^(0-1)" }

OrderInputs ==
    { JoinLines(ls) : ls \in UNION { [1..n -> OrderLines] : n \in 1..MaxRows } }

InitOrders == Init /\ content \in OrderInputs

\* The second run starts when the evaluation loop of the first has ended or
\* has exited with an error: the outcome is kept in first, and the table and
\* the expression buffer are built again from the content.
Restart ==
    /\ first.run = "none"
    /\ \/ phase = "render" /\ pos = 0
       \/ phase = "error" /\ pos > 0
    /\ first' = [run |-> IF phase = "render" THEN "completed" ELSE "failed",
                 cells |-> cells, eb |-> eb]
    /\ ParseTableTo(parse_table_from_content(content))
    /\ stack' = <<>>
    /\ ret' = Num(0)
    /\ pos' = 0
    /\ UNCHANGED <<content, conv, out>>

\* One iteration of the evaluation loop in another order: the call of
\* table_eval_cell on any cell not yet Evaluated (a call on an Evaluated cell
\* returns at once and changes nothing).
MainEvalAny ==
    /\ first.run # "none"
    /\ phase = "eval"
    /\ stack = <<>>
    /\ \E k \in 1..Len(cells) :
          /\ cells[k].status # "EVALUATED"
          /\ stack' = <<CellFrame([row |-> (k - 1) \div cols, col |-> (k - 1) % cols])>>
    /\ UNCHANGED <<content, conv, first, phase, err, rows, cols, cells, eb, ret, pos,
                   out, parsed>>

\* The end of the evaluation loop in another order.
MainEvalAnyDone ==
    /\ first.run # "none"
    /\ phase = "eval"
    /\ stack = <<>>
    /\ \A k \in 1..Len(cells) : cells[k].status = "EVALUATED"
    /\ phase' = "render"
    /\ UNCHANGED <<content, conv, first, err, rows, cols, cells, eb, stack, ret, pos,
                   out, parsed>>

\* The steps of table_eval_cell and table_eval_expr.
EvalStep ==
    \/ EvalCellEnter
    \/ EvalCellAfterExpr
    \/ EvalCellAfterNbor
    \/ EvalCellAfterMoved
    \/ EvalExprEnter
    \/ EvalExprAfterCell
    \/ EvalExprAfterLhs
    \/ EvalExprAfterRhs
    \/ EvalExprAfterUop

NextOrders ==
    \/ first.run = "none" /\ Next
    \/ Restart
    \/ MainEvalAny
    \/ MainEvalAnyDone
    \/ first.run # "none" /\ EvalStep

SpecOrders == InitOrders /\ [][NextOrders]_vars

\* ------------------------------------------------------------ properties

\* The index of the cell at the k-th place of table.cells (k from 1).
IndexAt(k) == [row |-> (k - 1) \div cols, col |-> (k - 1) % cols]

\* The place of the cell at index in table.cells.
PlaceOf(index) == index.row * cols + index.col + 1

\* index lies in [0, rows) x [0, cols).
Inside(index) == index.row < rows /\ index.col < cols

\* The step a direction makes on the grid: :^ is one row up, :v one row down,
\* :< one column to the left, :> one column to the right.
RowStep(dir) == IF dir = "UP" THEN -1 ELSE IF dir = "DOWN" THEN 1 ELSE 0

ColStep(dir) == IF dir = "LEFT" THEN -1 ELSE IF dir = "RIGHT" THEN 1 ELSE 0

\* The neighbor of index on the unbounded grid.
GridNbor(index, dir) ==
    [row |-> index.row + RowStep(dir), col |-> index.col + ColStep(dir)]

\* The calls of table_eval_cell that are past their entry.
CellCalls == {i \in 1..Len(stack) : stack[i].fn = "cell" /\ stack[i].pc # "enter"}

\* The tree at b is the tree at a (the tree of the cell at n) as seen from the
\* cell at p, which clones n in direction d: the same shape, operators and
\* numbers, each CELL leaf one step opposite to d, that is with the offset
\* from p that the leaf at a has from n.
RECURSIVE Translated(_, _, _, _, _)
Translated(a, b, d, p, n) ==
    LET x == expr_buffer_at(eb, a)
        y == expr_buffer_at(eb, b)
    IN  /\ x.kind = y.kind
        /\ CASE x.kind = "NUMBER" -> y.number = x.number
             [] x.kind = "CELL" ->
                    /\ y.cell.row = (x.cell.row - RowStep(d)) % SizeMod
                    /\ y.cell.col = (x.cell.col - ColStep(d)) % SizeMod
                    /\ (y.cell.row - p.row) % SizeMod = (x.cell.row - n.row) % SizeMod
                    /\ (y.cell.col - p.col) % SizeMod = (x.cell.col - n.col) % SizeMod
             [] x.kind = "BOP" ->
                    /\ y.bop = x.bop
                    /\ Translated(x.lhs, y.lhs, d, p, n)
                    /\ Translated(x.rhs, y.rhs, d, p, n)
             [] x.kind = "UOP" ->
                    /\ y.uop = x.uop
                    /\ Translated(x.param, y.param, d, p, n)

\* Every CELL leaf of the tree at root refers to a cell of the table that
\* holds a number or an expression.
RECURSIVE LeavesNumeric(_)
LeavesNumeric(root) ==
    LET x == expr_buffer_at(eb, root)
    IN  CASE x.kind = "NUMBER" -> TRUE
          [] x.kind = "CELL" ->
                 Inside(x.cell) /\ cells[PlaceOf(x.cell)].kind \in {"NUMBER", "EXPR"}
          [] x.kind = "BOP" -> LeavesNumeric(x.lhs) /\ LeavesNumeric(x.rhs)
          [] x.kind = "UOP" -> LeavesNumeric(x.param)

\* The value of the Expression cell at the k-th place.
ValueAt(k) == cells[k].as.expr.value

\* ---- C1

C1Reentered ==
    /\ Running("cell", "enter")
    /\ Inside(Top.index)
    /\ cells[PlaceOf(Top.index)].kind \in {"EXPR", "CLONE"}
    /\ cells[PlaceOf(Top.index)].status = "INPROGRESS"

C1Stopped ==
    /\ phase' = "error"
    /\ err' = "Cycle"
    /\ cells' = cells
    /\ stack' = stack

C1Bounded ==
    /\ \A i, j \in CellCalls : stack[i].index = stack[j].index => i = j
    /\ \A i \in CellCalls :
          /\ Inside(stack[i].index)
          /\ cells[PlaceOf(stack[i].index)].status = "INPROGRESS"

C1Rejected ==
    content \in {"=B0|=A0", "=A0"} =>
        /\ phase \notin {"render", "done"}
        /\ phase = "error" => err = "Cycle"

\* C1: a call of table_eval_cell on a cell that is INPROGRESS exits with the
\* circular-dependency error and leaves every cell as it is; no cell is
\* evaluated by two calls at once, and each cell under evaluation stays
\* INPROGRESS, so the recursion is bounded by the number of cells; the mutual
\* reference =B0 | =A0 and the self reference =A0 never get to the output.
C1_CycleIsReported ==
    [][(C1Reentered => C1Stopped) /\ C1Bounded' /\ C1Rejected']_vars

C1_Witness ==
    /\ content = "=B0|=A0"
    /\ phase = "error"
    /\ err = "Cycle"
    /\ Cardinality(CellCalls) = 2
    /\ Top.index = [row |-> 0, col |-> 0]

\* ---- C2

C2RefOutside ==
    /\ Running("expr", "enter")
    /\ expr_buffer_at(eb, Top.expr).kind = "CELL"
    /\ ~Inside(expr_buffer_at(eb, Top.expr).cell)

C2CallOutside ==
    /\ Running("cell", "enter")
    /\ ~Inside(Top.index)

C2Reported ==
    /\ phase' = "error"
    /\ err' = "AssertCellIndex"
    /\ cells' = cells
    /\ ret' = ret

C2NoReadOutside ==
    /\ \A i \in CellCalls : Inside(stack[i].index)
    /\ Running("expr", "cell") => Inside(expr_buffer_at(eb, Top.expr).cell)

\* C2: when table_eval_expr is at a CELL node whose index is outside the
\* table it calls table_eval_cell on that index, and that call stops the run
\* at the assert of table_cell_at with no cell changed and no value returned;
\* every call that is past the assert, and every read of a target cell by
\* table_eval_expr, has an index inside the table.
C2_OutsideRefIsReported ==
    [][/\ C2RefOutside => C2CallOutside' /\ Top'.index = expr_buffer_at(eb, Top.expr).cell
       /\ C2CallOutside => C2Reported
       /\ C2NoReadOutside']_vars

\* The reference =A1 of the cell right of a :> clone, moved to the left of
\* column 0 by the clone.
C2_Witness ==
    /\ phase = "error"
    /\ err = "AssertCellIndex"
    /\ Top.index.col = SizeMod - 1
    /\ Top.index.row < rows
    /\ Len(eb) > 1

\* ---- C3

C3CloneEntered ==
    /\ Running("cell", "enter")
    /\ Inside(Top.index)
    /\ cells[PlaceOf(Top.index)].kind = "CLONE"
    /\ cells[PlaceOf(Top.index)].status = "UNEVALUATED"

C3OffTable(index, dir) ==
    \/ dir = "LEFT" /\ index.col = 0
    \/ dir = "UP" /\ index.row = 0
    \/ dir = "RIGHT" /\ index.col = cols - 1
    \/ dir = "DOWN" /\ index.row = rows - 1

C3Reported(k) ==
    /\ phase' = "error"
    /\ err' = "CloneOutside"
    /\ stack' = stack
    /\ eb' = eb
    /\ \A j \in 1..Len(cells) : j # k => cells'[j] = cells[j]

C3Called(nbor) ==
    /\ phase' = "eval"
    /\ nbor.row \in 0..(rows - 1)
    /\ nbor.col \in 0..(cols - 1)
    /\ Len(stack') = Len(stack) + 1
    /\ stack'[Len(stack')] = CellFrame(nbor)

C3Step(index, dir) ==
    IF C3OffTable(index, dir)
    THEN C3Reported(PlaceOf(index))
    ELSE C3Called(GridNbor(index, dir))

\* C3: table_eval_cell on an unevaluated Clone cell whose direction leaves
\* the table (:< in column 0, :^ in row 0, :> in the last column, :v in the
\* last row) exits with the clone-outside-of-the-table error without a call
\* on a neighbor and without a change to another cell; on every other Clone
\* cell it calls itself on the neighbor in that direction, which is inside
\* the table.
C3_CloneOffTableIsReported ==
    [][C3CloneEntered =>
          C3Step(Top.index, cells[PlaceOf(Top.index)].as.clone)]_vars

C3_Witness ==
    /\ phase = "error"
    /\ err = "CloneOutside"
    /\ Top.index.col = cols - 1
    /\ parsed[PlaceOf(Top.index)] = CloneCell("RIGHT")
    /\ cols > 1

\* ---- C4

C4TextTarget ==
    /\ Running("expr", "cell")
    /\ Inside(expr_buffer_at(eb, Top.expr).cell)
    /\ cells[PlaceOf(expr_buffer_at(eb, Top.expr).cell)].kind = "TEXT"

C4Reported ==
    /\ phase' = "error"
    /\ err' = "TextInMath"
    /\ cells' = cells
    /\ ret' = ret

C4NoTextUsed ==
    \A k \in 1..Len(cells) :
        cells[k].kind = "EXPR" /\ cells[k].status = "EVALUATED" =>
            LeavesNumeric(cells[k].as.expr.index)

\* C4: when table_eval_expr finds the target of a CELL node to be of kind
\* Text the run exits with the text-in-math error and no cell changes; no
\* Expression cell is Evaluated while a leaf of its tree refers to a Text
\* cell.
C4_TextTargetIsReported ==
    [][(C4TextTarget => C4Reported) /\ C4NoTextUsed']_vars

\* The target was a Clone cell that resolved to Text.
C4_Witness ==
    /\ phase = "error"
    /\ err = "TextInMath"
    /\ parsed[PlaceOf(expr_buffer_at(eb, Top.expr).cell)].kind = "CLONE"

\* ---- C5

C5Resolved(k) ==
    /\ parsed[k] = CloneCell("RIGHT")
    /\ cells[k].status = "EVALUATED"

\* The cell at the k-th place has the kind of the cell at the n-th place, and
\* its text or number, or (translated for a :> clone) its expression.
C5TakenFrom(k, n) ==
    /\ cells[n].status = "EVALUATED"
    /\ cells[k].kind = cells[n].kind
    /\ CASE cells[k].kind \in {"TEXT", "NUMBER"} -> cells[k].as = cells[n].as
         [] cells[k].kind = "EXPR" ->
                Translated(cells[n].as.expr.index, cells[k].as.expr.index,
                           "RIGHT", IndexAt(k), IndexAt(n))
         [] OTHER -> FALSE

\* C5 as claimed: a resolved :> Clone cell at (r, c) with a resolved cell at
\* (r, c-1) has the kind and payload of that cell.
C5_TakesFromLeft ==
    \A k \in 1..Len(parsed) :
        (C5Resolved(k) /\ IndexAt(k).col >= 1 /\ cells[k - 1].status = "EVALUATED") =>
            C5TakenFrom(k, k - 1)

\* C5, amended: a resolved :> Clone cell at (r, c) has a cell at (r, c+1) and
\* has the kind of that cell together with its text or number, or with a
\* translated copy of its expression.
C5_TakesFromRight ==
    \A k \in 1..Len(parsed) :
        C5Resolved(k) => IndexAt(k).col + 1 < cols /\ C5TakenFrom(k, k + 1)

\* A :> clone between a Text cell on its left and a Number cell on its right.
C5_Witness ==
    /\ content = "x|:>|3"
    /\ Len(cells) = 3
    /\ C5Resolved(2)
    /\ cells[2].kind = "NUMBER"
    /\ cells[1].kind = "TEXT"
    /\ cells[1].status = "EVALUATED"

\* ---- C6

C6Translated(k, nbor) ==
    /\ Inside(nbor)
    /\ cells[PlaceOf(nbor)].kind = "EXPR"
    /\ Translated(cells[PlaceOf(nbor)].as.expr.index, cells[k].as.expr.index,
                  parsed[k].as.clone, IndexAt(k), nbor)

\* C6: the tree of a Clone cell at p with direction d that became an
\* Expression has the shape, operators and numbers of the tree of its
\* neighbor in direction d, and each CELL leaf of it is the neighbor's leaf
\* one step opposite to d, at the offset from p that the neighbor's leaf has
\* from the neighbor.
C6_TranslatedTree ==
    \A k \in 1..Len(parsed) :
        (parsed[k].kind = "CLONE" /\ cells[k].kind = "EXPR") =>
            C6Translated(k, GridNbor(IndexAt(k), parsed[k].as.clone))

\* The clone :< of =A0+1 resolved to =B0+1.
C6_Witness ==
    /\ content = "1|2\n=A0+1|:<"
    /\ Len(cells) = 4
    /\ cells[4].status = "EVALUATED"
    /\ cells[4].kind = "EXPR"
    /\ expr_buffer_at(eb, cells[4].as.expr.index).kind = "BOP"
    /\ cells[4].as.expr.index # cells[3].as.expr.index
    /\ ValueAt(4) = Num(3)

\* ---- C7

\* C7 as claimed: the grid without a header line is evaluated without an
\* error and its last row holds 3 and 7.
C7_NoHeaderResolves ==
    content = GridNoHeader =>
        /\ phase # "error"
        /\ phase = "done" => ValueAt(5) = Num(3) /\ ValueAt(6) = Num(7)

\* C7, amended: on the grid without a header line =A1+B1 refers to the line
\* 3 | 4 and resolves to 7, =A2+B2 refers to its own line, and the run stops
\* at it with the circular-dependency error before anything is written.
C7_NoHeaderIsCircular ==
    content = GridNoHeader =>
        /\ phase \notin {"render", "done"}
        /\ out = <<>>
        /\ phase = "error" =>
              /\ err = "Cycle"
              /\ cells[5].status = "EVALUATED"
              /\ ValueAt(5) = Num(7)
              /\ cells[6].status = "INPROGRESS"
              /\ Top.index = [row |-> 2, col |-> 1]

C7_Witness ==
    /\ content = GridNoHeader
    /\ phase = "error"
    /\ rows = 3
    /\ cols = 2

\* ---- C8

C8Cell(k, row, col) == expr_buffer_at(eb, k) = CellExpr(row, col)

C8Sum(k, row) ==
    /\ cells[k].kind = "EXPR"
    /\ expr_buffer_at(eb, cells[k].as.expr.index).kind = "BOP"
    /\ expr_buffer_at(eb, cells[k].as.expr.index).bop = "PLUS"
    /\ C8Cell(expr_buffer_at(eb, cells[k].as.expr.index).lhs, row, 0)
    /\ C8Cell(expr_buffer_at(eb, cells[k].as.expr.index).rhs, row, 1)

\* C8: on the grid of the README, whose header line is row 0, the run has no
\* error; A1, B1, A2 and B2 are parsed as (row 1, column 0), (1, 1), (2, 0)
\* and (2, 1), the cells holding 1, 2, 3 and 4; the last row resolves to 3
\* and 7.
C8_ReadmeGridResolves ==
    content = ReadmeSum =>
        /\ phase # "error"
        /\ phase # "start" =>
              /\ rows = 4 /\ cols = 2
              /\ cells[3].as.number = Num(1) /\ cells[4].as.number = Num(2)
              /\ cells[5].as.number = Num(3) /\ cells[6].as.number = Num(4)
              /\ C8Sum(7, 1) /\ C8Sum(8, 2)
        /\ phase \in {"render", "done"} =>
              /\ cells[7].status = "EVALUATED" /\ ValueAt(7) = Num(3)
              /\ cells[8].status = "EVALUATED" /\ ValueAt(8) = Num(7)

C8_Witness ==
    /\ content = ReadmeSum
    /\ phase = "done"
    /\ out[7] = Num(3)
    /\ out[8] = Num(7)

\* ---- C9

\* The value v is l op r in exact arithmetic, for finite l and r (and r # 0
\* under the division).
C9Arithmetic(op, l, r, v) ==
    CASE op = "PLUS" -> v.n * l.d * r.d = (l.n * r.d + r.n * l.d) * v.d
      [] op = "MINUS" -> v.n * l.d * r.d = (l.n * r.d - r.n * l.d) * v.d
      [] op = "MULT" -> v.n * l.d * r.d = l.n * r.n * v.d
      [] op = "DIV" -> v.n * l.d * r.n = l.n * r.d * v.d

C9Applies(op, l, r) ==
    /\ op \in {"PLUS", "MINUS", "MULT", "DIV"}
    /\ IsFinite(l)
    /\ IsFinite(r)
    /\ op = "DIV" => r.n # 0

C9Step ==
    (/\ Running("expr", "rhs")
     /\ C9Applies(expr_buffer_at(eb, Top.expr).bop, Top.lhs, ret)) =>
        /\ phase' = "eval"
        /\ IsFinite(ret')
        /\ C9Arithmetic(expr_buffer_at(eb, Top.expr).bop, Top.lhs, ret, ret')

C9Examples ==
    /\ content \in {GridSum, GridBops} => phase # "error"
    /\ (content = GridSum /\ phase \in {"render", "done"}) => ValueAt(1) = Num(7)
    /\ (content = GridBops /\ phase \in {"render", "done"}) =>
          /\ ValueAt(1) = Num(6)
          /\ ValueAt(2) = Num(-3)
          /\ ValueAt(3) = [n |-> 5, d |-> 2]
          /\ ValueAt(4) = Num(8)

\* C9: a BOP node of +, -, * or / over two finite operands (a nonzero
\* divisor) returns their sum, difference, product or quotient; =A1+B1 over
\* 3 and 4 resolves to 7, =2*3 to 6, =2-5 to -3, =10/4 to 2.5, =2^3 to 8.
C9_BinaryOperators == [][C9Step /\ C9Examples']_vars

C9_Witness ==
    /\ content = GridBops
    /\ phase = "done"
    /\ out = <<Num(6), Num(-3), [n |-> 5, d |-> 2], Num(8)>>

\* ---- C10

\* C10 as claimed: =-5+2 resolves to -3.
C10_UnaryMinusBindsFirst ==
    (content = GridUnary /\ phase = "done") => ValueAt(1) = Num(-3)

\* ---- C11

C11Reentered ==
    /\ Running("cell", "enter")
    /\ Inside(Top.index)
    /\ cells[PlaceOf(Top.index)].status = "EVALUATED"

C11Returned ==
    /\ phase' = "eval"
    /\ stack' = Pop
    /\ cells' = cells
    /\ eb' = eb
    /\ ret' = ret

\* C11: a call of table_eval_cell on a cell that is Evaluated returns at
\* once: it makes no call of table_eval_expr, and the cells (kind, payload,
\* value and status of every one) and the expression buffer are as they
\* were.
C11_EvaluatedIsIdempotent == [][C11Reentered => C11Returned]_vars

\* The call of =A0 on the cell of a :> clone that became the Number 2.
C11_Witness ==
    /\ content = ":>|2\n=A0"
    /\ phase = "eval"
    /\ Len(stack) = 2
    /\ stack[1].fn = "cell" /\ stack[1].index = [row |-> 1, col |-> 0]
    /\ stack[2].fn = "expr" /\ stack[2].pc = "cell"
    /\ parsed[1].kind = "CLONE"
    /\ cells[1] = [kind |-> "NUMBER", as |-> [number |-> Num(2)], status |-> "EVALUATED"]

\* ---- C12

\* The cells at the k-th place of two tables have the same kind and the same
\* text, number or value.
C12SameCell(a, b) ==
    /\ a.kind = b.kind
    /\ CASE a.kind = "TEXT" -> a.as.text = b.as.text
         [] a.kind = "NUMBER" -> a.as.number = b.as.number
         [] a.kind = "EXPR" -> a.as.expr.value = b.as.expr.value
         [] OTHER -> FALSE

C12SameTable(a, b) ==
    /\ Len(a) = Len(b)
    /\ \A k \in 1..Len(a) : C12SameCell(a[k], b[k])

\* C12: when the evaluation of a table in any order of the calls of the
\* loop has completed, the evaluation in the order of main had completed,
\* with the same kind and the same text, number or value in every cell; when
\* it has exited with an error, the evaluation in the order of main had
\* exited with an error.
C12_OrderIndependent ==
    first.run # "none" =>
        /\ phase = "render" =>
              first.run = "completed" /\ C12SameTable(first.cells, cells)
        /\ phase = "error" => first.run = "failed"

\* A completed second run whose clones were resolved in another order than
\* in the first: the translated trees lie elsewhere in the buffer.
C12_Witness ==
    /\ first.run = "completed"
    /\ phase = "render"
    /\ first.eb # eb
    /\ C12SameTable(first.cells, cells)

\* ---- C13

\* The errors the program reports before it exits: those of the lexer and the
\* parser, and those of the evaluation (the failed assert of table_cell_at
\* among them).
C13Reported ==
    { "UnknownToken", "UnexpectedToken", "CellRefRow", "CellRefCapital",
      "ExpectedParen", "ExpectedPrimary", "CloneDirection",
      "Cycle", "CloneOutside", "TextInMath", "AssertCellIndex" }

\* C13 as claimed: a run that stops before the table is resolved stops at a
\* reported error, never in a recursion that does not come to its end, also
\* under ^ with a (finite) negative exponent.
C13_EveryRunTerminates ==
    (phase = "error" /\ IsFinite(ret)) => err \in C13Reported

\* ---- C14

\* Every cell of the table is resolved.
C14Resolved ==
    \A k \in 1..Len(cells) :
        /\ cells[k].status = "EVALUATED"
        /\ cells[k].kind \in {"TEXT", "NUMBER", "EXPR"}

C14Step ==
    /\ out' # out => C14Resolved
    /\ phase' = "error" => out' = <<>>
    /\ phase = "error" => UNCHANGED vars

\* C14: a field is written only when every cell is Evaluated and of kind
\* Text, Number or Expression; a run that stops at an error has written no
\* field, and after the error nothing is evaluated or written any more.
C14_NoPartialOutput == [][C14Step]_vars

\* The first field of a table with a clone in it has been written.
C14_Witness ==
    /\ phase = "render"
    /\ Len(out) = 1
    /\ \E k \in 1..Len(parsed) : parsed[k].kind = "CLONE"

\* ---- C15

\* The tree at b is the tree at a with the row of every CELL leaf increased
\* by j, its column and every number unchanged.
RECURSIVE C15Shifted(_, _, _)
C15Shifted(a, b, j) ==
    LET x == expr_buffer_at(eb, a)
        y == expr_buffer_at(eb, b)
    IN  /\ x.kind = y.kind
        /\ CASE x.kind = "NUMBER" -> y.number = x.number
             [] x.kind = "CELL" ->
                    /\ y.cell.row = (x.cell.row + j) % SizeMod
                    /\ y.cell.col = x.cell.col
             [] x.kind = "BOP" ->
                    /\ y.bop = x.bop
                    /\ C15Shifted(x.lhs, y.lhs, j)
                    /\ C15Shifted(x.rhs, y.rhs, j)
             [] x.kind = "UOP" ->
                    /\ y.uop = x.uop
                    /\ C15Shifted(x.param, y.param, j)

\* The value of the tree at root over the values the cells hold.
RECURSIVE C15Value(_)
C15Value(root) ==
    LET x == expr_buffer_at(eb, root)
    IN  CASE x.kind = "NUMBER" -> x.number
          [] x.kind = "CELL" ->
                 IF Inside(x.cell) THEN TargetValue(cells[PlaceOf(x.cell)]).value
                 ELSE NaN
          [] x.kind = "BOP" ->
                 LET l == C15Value(x.lhs)
                     r == C15Value(x.rhs)
                 IN  ApplyBop(x.bop, l, r, CHOOSE n \in IntCast(r, conv) : TRUE).value
          [] x.kind = "UOP" -> DNeg(C15Value(x.param))

\* The cells at the j places below the Expression cell at place k are :^ clones.
C15Column(k, j) ==
    /\ parsed[k].kind = "EXPR"
    /\ k + j * cols <= Len(parsed)
    /\ \A i \in 1..j :
          /\ parsed[k + i * cols].kind = "CLONE"
          /\ parsed[k + i * cols].as.clone = "UP"

C15Clone(k, j) ==
    LET c == cells[k + j * cols]
    IN  c.status = "EVALUATED" =>
            /\ c.kind = "EXPR"
            /\ C15Shifted(parsed[k].as.expr.index, c.as.expr.index, j)
            /\ c.as.expr.value = C15Value(c.as.expr.index)

\* The value of the cell at (row, col) of the rendered table.
C15Shown(row, col) ==
    LET c == cells[row * cols + col + 1]
    IN  IF c.kind = "NUMBER" THEN c.as.number ELSE c.as.expr.value

\* The columns Price of A, Sum and Total of the README's output.
C15Bills ==
    /\ rows = 6 /\ cols = 5
    /\ \A j \in 1..5 : C15Shown(j, 2) = Rat(2 * j + 3, 2)
    /\ <<C15Shown(1, 3), C15Shown(2, 3), C15Shown(3, 3), C15Shown(4, 3), C15Shown(5, 3)>>
         = <<Num(100), Rat(24584, 100), Rat(29475, 100), Rat(2101, 10), Num(325)>>
    /\ <<C15Shown(1, 4), C15Shown(2, 4), C15Shown(3, 4), C15Shown(4, 4), C15Shown(5, 4)>>
         = <<Num(100), Rat(34584, 100), Rat(64059, 100), Rat(85069, 100),
             Rat(117569, 100)>>

\* C15: the j-th of a column of :^ clones directly below an Expression cell,
\* once evaluated, is an Expression whose tree is that cell's tree with every
\* referenced row increased by j and every number unchanged, and its value is
\* the value of that tree; the README's bills table comes out with the
\* prices 2.5 .. 6.5, the sums and the running total of the README.
C15_CloneColumn ==
    /\ \A k \in 1..Len(parsed) : \A j \in 1..rows :
          C15Column(k, j) => C15Clone(k, j)
    /\ (content = ReadmeBills /\ phase \in {"render", "done"}) => C15Bills

\* The third clone below =C1+1 of the README's bills table is evaluated.
C15_Witness ==
    /\ content = ReadmeBills
    /\ phase = "eval"
    /\ Len(cells) = 30
    /\ C15Column(8 + 5, 3)
    /\ cells[8 + 20].status = "EVALUATED"
    /\ cells[8 + 20].as.expr.value = Rat(13, 2)

\* ---- C16

\* C16 as claimed: a literal with a fractional part and a literal with a
\* signed exponent are accepted in a formula as they are in a Number cell:
\* the formula parses without an error into one NUMBER node, of the value of
\* the Number cell with the same text.
C16_LiteralForms ==
    (content \in {GridDecimalLiteral, GridExponentLiteral} /\ phase # "start") =>
        /\ err = ""
        /\ Len(eb) = 1
        /\ expr_buffer_at(eb, 0).kind = "NUMBER"
        /\ expr_buffer_at(eb, 0).number = parsed[1].as.number

\* ---- C17

\* The n-th piece (from 0) of s cut at delim.
RECURSIVE NthPiece(_, _, _)
NthPiece(s, delim, n) ==
    IF n = 0 THEN sv_chop_by_delim(s, delim).chopped
    ELSE NthPiece(sv_chop_by_delim(s, delim).rest, delim, n - 1)

\* The trimmed text of the field of the k-th place of the table.
FieldText(k) ==
    sv_trim(NthPiece(NthPiece(content, "\n", IndexAt(k).row), "|", IndexAt(k).col))

\* The number of tokens of source that are not parentheses (1000 and more,
\* which no formula of the inputs has, when the lexer stops at an unknown
\* token).
RECURSIVE C17Tokens(_)
C17Tokens(source) ==
    LET t == lexer_next_token(source)
    IN  IF t.err # "" THEN 1000
        ELSE IF t.text = "" THEN 0
        ELSE (IF t.text \in {"(", ")"} THEN 0 ELSE 1) + C17Tokens(t.source)

\* The number of nodes of the tree at root.
RECURSIVE C17Nodes(_)
C17Nodes(root) ==
    LET x == expr_buffer_at(eb, root)
    IN  CASE x.kind \in {"NUMBER", "CELL"} -> 1
          [] x.kind = "BOP" -> 1 + C17Nodes(x.lhs) + C17Nodes(x.rhs)
          [] x.kind = "UOP" -> 1 + C17Nodes(x.param)

\* The table was parsed to its end.
C17Accepted == phase \in {"eval", "render", "done"} \/ (phase = "error" /\ pos > 0)

\* Nothing of the table has been evaluated or written.
C17NothingEvaluated ==
    /\ stack = <<>> /\ pos = 0 /\ out = <<>>
    /\ \A k \in 1..Len(cells) : cells[k].status = "UNEVALUATED"

\* C17: in a table that was accepted, the tree of every formula has a node
\* for each of the formula's tokens (parentheses apart), so that no token is
\* left after the parsed expression; =1 2 and =1) are rejected with the
\* unexpected-token error, and a run that ends in it has evaluated no cell.
C17_AllTokensConsumed ==
    /\ C17Accepted =>
          \A k \in 1..Len(parsed) :
              parsed[k].kind = "EXPR" =>
                  C17Nodes(parsed[k].as.expr.index) = C17Tokens(Drop(FieldText(k), 1))
    /\ (content \in {GridTrailingNumber, GridTrailingParen} /\ phase # "start") =>
          phase = "error" /\ err = "UnexpectedToken"
    /\ (phase = "error" /\ err = "UnexpectedToken") => C17NothingEvaluated

\* The run on 7|=1 2 has stopped at the token 2.
C17_Witness ==
    /\ content = GridTrailingNumber
    /\ phase = "error"
    /\ err = "UnexpectedToken"
    /\ Len(eb) = 1

\* ---- C18

\* The character that names each direction.
C18Names == [LEFT |-> "<", RIGHT |-> ">", UP |-> "^", DOWN |-> "v"]

\* The cell at the k-th place is what the rules make of its field's text t.
C18Rule(k, t) ==
    IF sv_starts_with(t, "=")
    THEN parsed[k].kind = "EXPR" /\ parsed[k].status = "UNEVALUATED"
    ELSE IF sv_starts_with(t, ":")
    THEN /\ parsed[k].kind = "CLONE" /\ parsed[k].status = "UNEVALUATED"
         /\ parsed[k].as.clone \in DOMAIN C18Names
         /\ Drop(t, 1) = C18Names[parsed[k].as.clone]
    ELSE IF sv_strtod(t).ok
    THEN parsed[k].kind = "NUMBER" /\ parsed[k].as.number = sv_strtod(t).value
    ELSE parsed[k].kind = "TEXT" /\ parsed[k].as.text = t

\* The fields that were parsed without an error: all of an accepted table,
\* all but the last one of a table the parser stopped in.
C18Parsed == IF C17Accepted THEN Len(parsed) ELSE Len(parsed) - 1

\* C18: every field parsed is an Expression if its trimmed text starts with
\* =, else a Clone if it starts with : (the rest being the one character of
\* its direction), else a Number if the whole text is a number, else a Text;
\* Expressions and Clones are Unevaluated after parsing; and a run that stops
\* at the invalid-direction error stopped at a field that starts with : and
\* goes on with something else than <, >, ^ or v.
C18_FieldKinds ==
    /\ phase # "start" => \A k \in 1..C18Parsed : C18Rule(k, FieldText(k))
    /\ (phase = "error" /\ err = "CloneDirection") =>
          /\ sv_starts_with(FieldText(Len(parsed)), ":")
          /\ Drop(FieldText(Len(parsed)), 1) \notin {"<", ">", "^", "v"}
    /\ (content = GridBadDirection /\ phase # "start") =>
          phase = "error" /\ err = "CloneDirection"

\* A table with a cell of each kind has been parsed.
C18_Witness ==
    /\ phase = "eval"
    /\ pos = 0
    /\ \A kind \in {"TEXT", "NUMBER", "EXPR", "CLONE"} :
          \E k \in 1..Len(parsed) : parsed[k].kind = kind
    /\ \E k \in 1..Len(parsed) : parsed[k].kind = "TEXT" /\ parsed[k].as.text # ""

\* ---- C19

\* The number of characters ch of s.
C19Count(s, ch) == Cardinality({i \in 1..Len(s) : CharAt(s, i) = ch})

\* The number of pieces s is cut into at the characters ch, an empty piece
\* after a final ch (and the one piece of an empty s) not counted.
C19Pieces(s, ch) ==
    IF Len(s) = 0 THEN 0
    ELSE C19Count(s, ch) + (IF CharAt(s, Len(s)) = ch THEN 0 ELSE 1)

\* The number of fields of the r-th line (from 0).
C19Fields(r) == C19Pieces(NthPiece(content, "\n", r), "|")

\* The table of r rows and c columns, with the cells p as parsed and cl as
\* they are, has a row for every line and a column for every field of the
\* lines with the most fields; the cells written are inside it, and a cell
\* past the fields of its line is an empty Text.
C19Dimensions(r, c, p, cl, accepted) ==
    /\ r = C19Pieces(content, "\n")
    /\ \A i \in 0..(r - 1) : C19Fields(i) <= c
    /\ c = 0 \/ \E i \in 0..(r - 1) : C19Fields(i) = c
    /\ Len(p) <= r * c
    /\ Len(cl) = Len(p)
    /\ accepted => Len(cl) = r * c
    /\ \A k \in 1..(IF accepted THEN Len(p) ELSE Len(p) - 1) :
          (k - 1) % c >= C19Fields((k - 1) \div c) => p[k] = TextCell("")

\* A step leaves the table, once it is built, with the dimensions of the
\* content, and with the rows and cols it had.
C19Step ==
    /\ phase' # "start" => C19Dimensions(rows', cols', parsed', cells', C17Accepted')
    /\ phase # "start" => rows' = rows /\ cols' = cols

\* C19: once the table is built it has one row for each line of the input
\* and as many columns as the line with the most fields has fields (an
\* empty piece after a final | is no field, an empty line has none), every
\* cell written is inside these dimensions, a line with fewer fields has
\* empty Text cells in its other columns, and no later step changes rows or
\* cols.
C19_TableDimensions == [][C19Step]_vars

\* The table of lines with two, no and three fields has been evaluated.
C19_Witness ==
    /\ content = GridRagged
    /\ phase = "render"
    /\ rows = 3 /\ cols = 3
    /\ Len(cells) = 9
    /\ cells[3] = [TextCell("") EXCEPT !.status = "EVALUATED"]
    /\ cells[5].kind = "TEXT"

\* ---- C20

\* The step leaves the status of the cell at the k-th place, or advances it:
\* an Expression or Clone from Unevaluated to InProgress and from InProgress
\* to Evaluated, a Text or Number from Unevaluated to Evaluated.
C20Advances(k) ==
    \/ cells'[k].status = cells[k].status
    \/ /\ cells[k].status = "UNEVALUATED" /\ cells'[k].status = "INPROGRESS"
       /\ cells[k].kind \in {"EXPR", "CLONE"}
    \/ cells[k].status = "INPROGRESS" /\ cells'[k].status = "EVALUATED"
    \/ /\ cells[k].status = "UNEVALUATED" /\ cells'[k].status = "EVALUATED"
       /\ cells[k].kind \in {"TEXT", "NUMBER"}

C20Step ==
    phase # "start" =>
        /\ Len(cells') = Len(cells)
        /\ \A k \in 1..Len(cells) : C20Advances(k)

\* C20: every step of a run after the table is built leaves each cell's
\* status or advances it along Unevaluated, InProgress, Evaluated (a Text or
\* Number cell from Unevaluated to Evaluated at once): no cell leaves
\* Evaluated, none goes back from InProgress to Unevaluated.
C20_StatusAdvances == [][C20Step]_vars

\* A formula is being evaluated while another one is Evaluated and a third
\* one is still Unevaluated.
C20_Witness ==
    /\ phase = "eval"
    /\ \A status \in {"UNEVALUATED", "INPROGRESS", "EVALUATED"} :
          \E k \in 1..Len(cells) :
              cells[k].status = status /\ parsed[k].kind \in {"EXPR", "CLONE"}

\* ---- C21

\* No cell is Evaluated and a Clone.
C21NoEvaluatedClone ==
    \A k \in 1..Len(cells) :
        ~(cells[k].status = "EVALUATED" /\ cells[k].kind = "CLONE")

\* The step is a normal return of table_eval_cell.
C21Returns ==
    /\ phase = "eval" /\ phase' = "eval"
    /\ stack # <<>>
    /\ Top.fn = "cell"
    /\ stack' = Pop

C21Step ==
    /\ C21NoEvaluatedClone'
    /\ err' # "Unreachable"
    /\ C21Returns =>
          /\ Inside(Top.index)
          /\ cells'[PlaceOf(Top.index)].status = "EVALUATED"
          /\ cells'[PlaceOf(Top.index)].kind \in {"TEXT", "NUMBER", "EXPR"}

\* C21: no step leads to a state with a cell that is Evaluated and a Clone;
\* when table_eval_cell returns, its cell is Evaluated and a Text, a Number
\* or an Expression; and no run comes to one of the branches marked
\* unreachable (table_eval_expr on a Clone target, table_eval_cell on an
\* Evaluated Clone, the renderer on a Clone).
C21_NoEvaluatedClone == [][C21Step]_vars

\* A clone whose neighbor was a clone itself is Evaluated.
C21_Witness ==
    \E k \in 1..Len(cells) :
        /\ parsed[k].kind = "CLONE"
        /\ cells[k].status = "EVALUATED"
        /\ Inside(GridNbor(IndexAt(k), parsed[k].as.clone))
        /\ parsed[PlaceOf(GridNbor(IndexAt(k), parsed[k].as.clone))].kind = "CLONE"

\* ---- C22

\* The buffer parse_expr fills for the formula of the k-th place alone.
C22Alone(k) == parse_expr(Drop(FieldText(k), 1), <<>>).eb

\* The number of nodes of the formulas of the first k places.
RECURSIVE C22Before(_)
C22Before(k) ==
    IF k = 0 THEN 0
    ELSE C22Before(k - 1) + (IF parsed[k].kind = "EXPR" THEN Len(C22Alone(k)) ELSE 0)

\* The node with its handles moved by off.
C22Shift(node, off) ==
    CASE node.kind = "BOP" -> [node EXCEPT !.lhs = @ + off, !.rhs = @ + off]
      [] node.kind = "UOP" -> [node EXCEPT !.param = @ + off]
      [] OTHER -> node

\* The nodes of each formula are in the buffer as its parse wrote them, after
\* the nodes of the formulas before it.
C22ParsedInPlace ==
    \A k \in 1..Len(parsed) :
        parsed[k].kind = "EXPR" =>
            \A i \in 1..Len(C22Alone(k)) :
                /\ C22Before(k - 1) + i <= Len(eb)
                /\ eb[C22Before(k - 1) + i] = C22Shift(C22Alone(k)[i], C22Before(k - 1))

C22Step ==
    /\ Len(eb') >= Len(eb)
    /\ \A i \in 1..Len(eb) : eb'[i] = eb[i]
    /\ C17Accepted => C22ParsedInPlace

\* C22: a step keeps every node of the buffer as it is, at its index, and
\* removes none; and all through the evaluation the nodes of each formula
\* are those its own parse wrote, whatever was parsed, evaluated or cloned
\* after it.
C22_AppendOnly == [][C22Step]_vars

\* A clone of a formula is Evaluated, its moved tree after the parsed nodes.
C22_Witness ==
    /\ phase = "eval"
    /\ Len(eb) > C22Before(Len(parsed))
    /\ \E k \in 1..Len(cells) :
          /\ parsed[k].kind = "CLONE"
          /\ cells[k].kind = "EXPR"
          /\ cells[k].status = "EVALUATED"

\* ---- C23

\* The handles of the nodes of the tree at root.
RECURSIVE C23Reach(_)
C23Reach(root) ==
    LET x == expr_buffer_at(eb, root)
    IN  CASE x.kind \in {"NUMBER", "CELL"} -> {root}
          [] x.kind = "BOP" -> {root} \cup C23Reach(x.lhs) \cup C23Reach(x.rhs)
          [] x.kind = "UOP" -> {root} \cup C23Reach(x.param)

\* The cell at the k-th place was parsed as a Clone and holds the moved tree
\* of its neighbor, the cell at the n-th place.
C23Moved(k, n) ==
    /\ parsed[k].kind = "CLONE"
    /\ cells[k].kind = "EXPR"
    /\ cells[k].status = "EVALUATED"
    /\ n = PlaceOf(GridNbor(IndexAt(k), parsed[k].as.clone))

\* The handles the trees of the cells at the k-th and the n-th place share.
C23Shared(k, n) ==
    C23Reach(cells[k].as.expr.index) \cap C23Reach(cells[n].as.expr.index)

\* C23 as claimed: the moved tree of a resolved Clone shares no node with the
\* tree of its neighbor, Number leaves included.
C23_NoSharedNode ==
    \A k, n \in 1..Len(cells) : C23Moved(k, n) => C23Shared(k, n) = {}

\* C23, amended: the moved tree of a resolved Clone shares with the tree of
\* its neighbor the Number leaves, all of them, and no other node: its CELL,
\* BOP and UOP nodes are new.
C23_OnlyNumbersShared ==
    \A k, n \in 1..Len(cells) :
        C23Moved(k, n) =>
            C23Shared(k, n) =
                {h \in C23Reach(cells[n].as.expr.index) :
                    expr_buffer_at(eb, h).kind = "NUMBER"}

\* The clone of =A0+1 holds a new BOP node over a new CELL leaf and the
\* Number leaf of =A0+1 itself.
C23_Witness ==
    /\ content = "1|2\n=A0+1|:<"
    /\ Len(cells) = 4
    /\ C23Moved(4, 3)
    /\ Cardinality(C23Shared(4, 3)) = 1
    /\ Cardinality(C23Reach(cells[4].as.expr.index)) = 3
    /\ cells[4].as.expr.index # cells[3].as.expr.index

\* ---- C24

\* The character of each binary operator.
C24Tokens == [PLUS |-> "+", MINUS |-> "-", MULT |-> "*", DIV |-> "/", POW |-> "^"]

\* The level of each binary operator: + and - on 0, the others on 1.
C24Level(kind) == IF kind \in {"PLUS", "MINUS"} THEN 0 ELSE 1

\* The tree at root written with all its parentheses (one-digit numbers and
\* rows, else ?).
RECURSIVE C24Show(_)
C24Show(root) ==
    LET x == expr_buffer_at(eb, root)
    IN  CASE x.kind = "NUMBER" ->
                 IF x.number.d = 1 /\ x.number.n \in 0..9
                 THEN SubSeq(Digits, x.number.n + 1, x.number.n + 1) ELSE "?"
          [] x.kind = "CELL" ->
                 IF x.cell.col < 26 /\ x.cell.row < 10
                 THEN SubSeq(UpperCase, x.cell.col + 1, x.cell.col + 1)
                          \o SubSeq(Digits, x.cell.row + 1, x.cell.row + 1)
                 ELSE "?"
          [] x.kind = "BOP" ->
                 "(" \o C24Show(x.lhs) \o C24Tokens[x.bop] \o C24Show(x.rhs) \o ")"
          [] x.kind = "UOP" -> "(-" \o C24Show(x.param) \o ")"

\* The node at h is no operator of level 1 over an operator of level 0.
C24Tighter(h) ==
    LET x == expr_buffer_at(eb, h)
    IN  (x.kind = "BOP" /\ C24Level(x.bop) = 1) =>
            \A c \in {x.lhs, x.rhs} :
                ~(expr_buffer_at(eb, c).kind = "BOP"
                    /\ C24Level(expr_buffer_at(eb, c).bop) = 0)

\* The trees of the five formulas of GridPrecedence.
C24Trees ==
    /\ err = ""
    /\ Len(parsed) = 5
    /\ [k \in 1..5 |-> C24Show(parsed[k].as.expr.index)]
         = <<"(2+(3*4))", "((2*3)+4)", "((2+3)*4)", "(2+(8/4))", "((2^3)-1)">>

\* C24: in a formula without parentheses no operator *, / or ^ has an
\* operand that is itself a + or a -; 2+3*4 parses as 2+(3*4), 2*3+4 as
\* (2*3)+4, (2+3)*4 as the product of the sum and 4, 2+8/4 as 2+(8/4), 2^3-1
\* as (2^3)-1, and they evaluate to 14, 10, 20, 4 and 7.
C24_Precedence ==
    /\ C17Accepted =>
          \A k \in 1..Len(parsed) :
              (parsed[k].kind = "EXPR" /\ C19Count(FieldText(k), "(") = 0) =>
                  \A h \in C23Reach(parsed[k].as.expr.index) : C24Tighter(h)
    /\ (content = GridPrecedence /\ phase # "start") => C24Trees
    /\ (content = GridPrecedence /\ phase \in {"render", "done"}) =>
          [k \in 1..5 |-> ValueAt(k)] = <<Num(14), Num(10), Num(20), Num(4), Num(7)>>

\* The formulas of GridPrecedence are evaluated.
C24_Witness ==
    /\ content = GridPrecedence
    /\ phase = "render"
    /\ Len(cells) = 5
    /\ ValueAt(1) = Num(14)
    /\ ValueAt(3) = Num(20)

\* ---- C25

\* The left operand of the node at h is no operator of the node's own level.
C25NestsRight(h) ==
    LET x == expr_buffer_at(eb, h)
    IN  x.kind = "BOP" =>
            ~(expr_buffer_at(eb, x.lhs).kind = "BOP"
                /\ C24Level(expr_buffer_at(eb, x.lhs).bop) = C24Level(x.bop))

\* The trees of the five formulas of GridChains.
C25Trees ==
    /\ err = ""
    /\ Len(parsed) = 10
    /\ [k \in 1..5 |-> C24Show(parsed[k].as.expr.index)]
         = <<"(A1-(B1-C1))", "(8/(4/2))", "(2^(3^2))", "(2*(3/4))", "(1-(2+3))">>

\* C25: in a formula without parentheses the left operand of an operator is
\* never an operator of the same level, so that a chain of one level nests
\* to the right; A1-B1-C1 parses as A1-(B1-C1), 8/4/2 as 8/(4/2), 2^3^2 as
\* 2^(3^2), 2*3/4 as 2*(3/4), 1-2+3 as 1-(2+3), and over A1 = 7, B1 = 2,
\* C1 = 1 they evaluate to 6, 4, 512, 3/2 and -4.
C25_RightNesting ==
    /\ C17Accepted =>
          \A k \in 1..Len(parsed) :
              (parsed[k].kind = "EXPR" /\ C19Count(FieldText(k), "(") = 0) =>
                  \A h \in C23Reach(parsed[k].as.expr.index) : C25NestsRight(h)
    /\ (content = GridChains /\ phase # "start") => C25Trees
    /\ (content = GridChains /\ phase \in {"render", "done"}) =>
          [k \in 1..5 |-> ValueAt(k)]
              = <<Num(6), Num(4), Num(512), Rat(3, 2), Num(-4)>>

\* The chains of GridChains are evaluated.
C25_Witness ==
    /\ content = GridChains
    /\ phase = "render"
    /\ Len(cells) = 10
    /\ ValueAt(1) = Num(6)
    /\ ValueAt(2) = Num(4)

\* ---- C26

\* The finite x without its fractional part.
C26Truncated(x) == IF x.n >= 0 THEN x.n \div x.d ELSE -((-x.n) \div x.d)

\* x multiplied by itself n times: the product of n factors x, 1 for n = 0.
RECURSIVE C26Power(_, _)
C26Power(x, n) == IF n = 0 THEN Num(1) ELSE DMul(x, C26Power(x, n - 1))

\* table_eval_expr is about to apply ^ to a finite right operand that
\* truncates to an n >= 0.
C26Applies ==
    /\ Running("expr", "rhs")
    /\ expr_buffer_at(eb, Top.expr).bop = "POW"
    /\ IsFinite(ret)
    /\ C26Truncated(ret) >= 0

C26Step ==
    C26Applies =>
        /\ phase' = "eval"
        /\ stack' = Pop
        /\ ret' = C26Power(Top.lhs, C26Truncated(ret))

\* C26: a ^ node whose right operand is finite and truncates toward zero to
\* an n >= 0 returns its left operand multiplied by itself n times, and 1
\* for n = 0 (0^0 included); the call of bin_pow comes to its end.  (The
\* doubles are exact here: the rounding of the products is not modelled.)
C26_PowerOfTruncated == [][C26Step]_vars

\* 2^2.5 = 4, 0^0 = 1, 2.5^-0.5 = 1, 3^0 = 1, 2^10 = 1024 and 1.5^3 = 27/8
\* are evaluated.
C26_Witness ==
    /\ content = GridPowers
    /\ phase = "render"
    /\ Len(cells) = 12
    /\ [k \in 1..6 |-> ValueAt(k)]
         = <<Num(4), Num(1), Num(1), Num(1), Num(1024), Rat(27, 8)>>

\* ---- C27

\* A call of table_eval_cell on a cell that was parsed as an Expression is
\* in progress.
C27InExpression ==
    \E i \in 1..Len(stack) :
        /\ stack[i].fn = "cell"
        /\ Inside(stack[i].index)
        /\ parsed[PlaceOf(stack[i].index)].kind = "EXPR"

\* The step is the one of table_eval_cell on a Clone cell whose neighbor
\* has resolved to an Expression: the copy and the move of the tree.
C27ClonesExpression ==
    /\ Running("cell", "nbor")
    /\ parsed[PlaceOf(Top.index)].kind = "CLONE"
    /\ cells[PlaceOf(Top.nbor)].kind = "EXPR"
    /\ cells[PlaceOf(Top.nbor)].status = "EVALUATED"

\* The nodes of the tree at root that are no Number leaves.
C27Moved(root) == {h \in C23Reach(root) : expr_buffer_at(eb, h).kind # "NUMBER"}

\* C27 as claimed: during the evaluation the node count changes only in the
\* resolution of a Clone cell whose neighbor resolved to an Expression, and
\* the evaluation of an Expression cell leaves the buffer as it is.
C27_ExpressionLeavesArena ==
    [][phase = "eval" =>
          /\ eb' # eb => C27ClonesExpression
          /\ C27InExpression => eb' = eb]_vars

C27Step ==
    phase = "eval" =>
        IF C27ClonesExpression
        THEN Len(eb') = Len(eb)
                 + Cardinality(C27Moved(cells[PlaceOf(Top.nbor)].as.expr.index))
        ELSE eb' = eb

\* C27, amended: during the evaluation the node count changes only in the
\* step of table_eval_cell that moves the tree of a Clone cell's neighbor
\* resolved to an Expression, where it grows by the number of nodes of the
\* neighbor's tree that are no Number leaves; every other step, of the
\* evaluation of a Text, Number or Expression cell or of a Clone whose
\* neighbor resolved to a Text or Number, leaves the buffer as it is.  That
\* step can come while an Expression cell is being evaluated, when its
\* formula refers to a Clone cell not yet resolved.
C27_GrowsOnlyInMove == [][C27Step]_vars

\* While =B0+1 is being evaluated the clone B0 has got its moved tree.
C27_Witness ==
    /\ content = GridCloneInFormula
    /\ phase = "eval"
    /\ Len(stack) >= 3
    /\ stack[1].index = [row |-> 0, col |-> 0]
    /\ Len(cells) = 6
    /\ cells[2].kind = "EXPR"
    /\ Len(eb) = 8

\* ---- C28

\* The places inside the table that the CELL leaves of the tree at root
\* refer to once they are moved by dr rows and dc columns.
C28Refs(root, dr, dc) ==
    { PlaceOf(i) :
        i \in { j \in { [row |-> (expr_buffer_at(eb, h).cell.row + dr) % SizeMod,
                         col |-> (expr_buffer_at(eb, h).cell.col + dc) % SizeMod] :
                           h \in {g \in C23Reach(root) :
                                     expr_buffer_at(eb, g).kind = "CELL"} } :
                 Inside(j) } }

\* The neighbor of the Clone at the k-th place is a cell of the table.
C28HasNbor(k) ==
    LET n == GridNbor(IndexAt(k), parsed[k].as.clone)
    IN  n.row >= 0 /\ n.col >= 0 /\ Inside(n)

C28Nbor(k) == PlaceOf(GridNbor(IndexAt(k), parsed[k].as.clone))

\* The references of the tree the cell at the k-th place has or gets, moved
\* by dr rows and dc columns: those of its formula, or those of the tree of
\* the neighbor it clones, one step against the direction (fuel bounds the
\* chain of clones).
RECURSIVE C28Tree(_, _, _, _)
C28Tree(k, dr, dc, fuel) ==
    IF fuel = 0 THEN {}
    ELSE IF parsed[k].kind = "EXPR" THEN C28Refs(parsed[k].as.expr.index, dr, dc)
    ELSE IF parsed[k].kind = "CLONE" /\ C28HasNbor(k)
    THEN C28Tree(C28Nbor(k), dr - RowStep(parsed[k].as.clone),
                 dc - ColStep(parsed[k].as.clone), fuel - 1)
    ELSE {}

\* The dependency graph: a formula depends on the cells it refers to, a
\* clone on its neighbor and on the cells its translated tree refers to.
C28Deps(k) ==
    IF parsed[k].kind = "CLONE" /\ C28HasNbor(k)
    THEN {C28Nbor(k)} \cup C28Tree(k, 0, 0, Len(parsed))
    ELSE C28Tree(k, 0, 0, Len(parsed))

\* The places reached from those of S in at most fuel more steps.
RECURSIVE C28Closure(_, _)
C28Closure(S, fuel) ==
    IF fuel = 0 THEN S
    ELSE C28Closure(S \cup UNION {C28Deps(j) : j \in S}, fuel - 1)

\* Some cell depends on itself.
C28Cyclic == \E k \in 1..Len(parsed) : k \in C28Closure(C28Deps(k), Len(parsed))

\* C28: a run exits with the circular-dependency error only on a table whose
\* dependency graph has a cycle; the table of GridDiamond, where cells depend
\* on D0 and on its clone along two paths each, has none and is evaluated
\* to 16 in both rows of its first column.
C28_CycleIsReal ==
    /\ (phase = "error" /\ err = "Cycle") => C28Cyclic
    /\ (content = GridDiamond /\ phase # "start") => ~C28Cyclic /\ err = ""
    /\ (content = GridDiamond /\ phase \in {"render", "done"}) =>
          ValueAt(1) = Num(16) /\ ValueAt(5) = Num(16)

\* The two diamonds of GridDiamond are evaluated.
C28_Witness ==
    /\ content = GridDiamond
    /\ phase = "render"
    /\ Len(cells) = 8
    /\ ~C28Cyclic
    /\ C28Deps(1) = {2, 3}
    /\ C28Deps(2) = {4} /\ C28Deps(3) = {4}
    /\ C28Deps(6) = {2, 8}
    /\ ValueAt(5) = Num(16)

\* ---- C29

\* The places of the cells that are InProgress.
C29InProgress == {k \in 1..Len(cells) : cells[k].status = "INPROGRESS"}

\* The places of the cells of the calls of table_eval_cell among the calls
\* at the positions F of the stack.
C29Cells(F) == {PlaceOf(stack[i].index) : i \in F}

\* C29 as claimed: while the table is evaluated the cells that are
\* InProgress are exactly the cells of the calls of table_eval_cell on the
\* stack, and none is InProgress between two calls of the loop of main and
\* after it.
C29_InProgressIsOnStack ==
    /\ phase = "eval" =>
          C29InProgress = C29Cells({i \in 1..Len(stack) : stack[i].fn = "cell"})
    /\ (stack = <<>> \/ phase \in {"render", "done"}) => C29InProgress = {}

\* C29, amended: while the table is evaluated the cells that are InProgress
\* are exactly the cells of the calls of table_eval_cell that found their
\* Expression or Clone cell Unevaluated and have not returned, one call for
\* each; a call at its entry, and a call on a Text, a Number or an Evaluated
\* cell, is on the stack without its cell being InProgress for it.  At an
\* exit the cells InProgress are cells of calls on the stack.  None is
\* InProgress between two calls of the loop of main and after it.
C29_InProgressIsEvaluating ==
    /\ phase = "eval" =>
          /\ C29InProgress = C29Cells(CellCalls)
          /\ Cardinality(CellCalls) = Cardinality(C29InProgress)
    /\ phase = "error" =>
          C29InProgress \subseteq
              C29Cells({i \in 1..Len(stack) : stack[i].fn = "cell"})
    /\ (stack = <<>> \/ phase \in {"render", "done"}) => C29InProgress = {}

\* Two cells are InProgress, the call on the second one inside the call on
\* the first, and the call on a third cell is at its entry.
C29_Witness ==
    /\ phase = "eval"
    /\ Cardinality(C29InProgress) = 2
    /\ Cardinality(CellCalls) = 2
    /\ Top.fn = "cell" /\ Top.pc = "enter"
    /\ Inside(Top.index)
    /\ cells[PlaceOf(Top.index)].kind \in {"TEXT", "NUMBER"}

\* ---- C30

\* The cell the CELL node of the top call of table_eval_expr refers to.
C30Target == expr_buffer_at(eb, Top.expr).cell

\* C30: when table_eval_expr comes to read the cell a CELL node refers to,
\* after its call of table_eval_cell returned, the cell is in the table and
\* Evaluated; the run over GridCloneReadBack, where the translated tree of a
\* clone leads back to the clone while it holds the value copied from its
\* neighbor, ends at the circular-dependency error without reading it.
C30_ReadsEvaluatedOnly ==
    /\ Running("expr", "cell") =>
          /\ Inside(C30Target)
          /\ cells[PlaceOf(C30Target)].status = "EVALUATED"
    /\ (content = GridCloneReadBack /\ phase \in {"error", "render", "done"}) =>
          phase = "error" /\ err = "Cycle"

\* The run over GridCloneReadBack has come back to the clone A1, which is
\* InProgress as an Expression with the value 8 of its neighbor, and exited.
C30_Witness ==
    /\ content = GridCloneReadBack
    /\ phase = "error"
    /\ err = "Cycle"
    /\ Top.fn = "cell"
    /\ Top.index = [row |-> 1, col |-> 0]
    /\ Len(cells) = 8
    /\ parsed[3].kind = "CLONE"
    /\ cells[3].kind = "EXPR"
    /\ cells[3].status = "INPROGRESS"
    /\ cells[3].as.expr.value = Num(8)

====
